---------------------------- MODULE Spec2Model ----------------------------
(***************************************************************************)
(* The Delta-BFI rule engine of src/src/lib/bfiRuleEngine.ts.              *)
(*                                                                         *)
(* interpretBFIMatrix(heatmap, wtSeq, config) is a sequential pipeline of  *)
(* eight steps followed by the compilation of the position lists and the   *)
(* global summary.  The state is the three arguments, the locals of the    *)
(* orchestrator and its position pc.  Each exported step function is an    *)
(* operator with the name it has in the source; the action StepN applies   *)
(* it exactly as interpretBFIMatrix does.  The exported functions are also *)
(* called directly (as the test-suite does): the specifications SpecStats, *)
(* SpecClassify, ... start the orchestrator's locals at the inputs of one  *)
(* step and take that step only.                                           *)
(*                                                                         *)
(* Numbers.  Scores and thresholds are integers counting hundredths        *)
(* (0.30 is 30); means are exact rationals [n, d] in lowest terms, and     *)
(* 0/0 is NaN.  IEEE rounding of the source's doubles is not modelled.     *)
(* A JavaScript value that may be undefined is <<>> (undefined) or <<v>>.  *)
(* Indices are 0-based as in the source; TLA+ sequences are 1-based, so    *)
(* element i of an array s is s[i + 1].                                    *)
(***************************************************************************)
EXTENDS Integers, Sequences, FiniteSets, TLC

VARIABLES
    heatmap,            \* number[][]: rows are residues, columns positions
    wtSeq,              \* the wild-type sequence, one residue per element
    config,             \* BFIConfig
    pc,                 \* the orchestrator's position
    allStats,           \* PositionStats[]
    allClasses,         \* PositionClass[]
    allChemistry,       \* ChemistryAnalysis[]
    chargedOverrides,   \* boolean[]
    excellentTargets,   \* Set<number> of 0-based position indices
    prefs,              \* { aa_prefs, group_prefs }
    ranked,             \* { topBeneficial, topHarmful }
    positions,          \* PositionInterpretation[]
    result,             \* InterpretationResult
    error               \* the exception that ended the call, or <<>>

vars == <<heatmap, wtSeq, config, pc, allStats, allClasses, allChemistry,
          chargedOverrides, excellentTargets, prefs, ranked, positions,
          result, error>>

-----------------------------------------------------------------------------
(* JavaScript values *)

undefined == <<>>

Num(v) == <<v>>

IsNum(x) == x # undefined

Val(x) == x[1]

\* String(undefined), and a property read that yields undefined where a
\* string is expected (no residue or group of the model has this name)
UndefinedStr == "undefined"

null == "null"

\* arr[i] for a 0-based index i: undefined when out of range
At(arr, i) == IF i + 1 \in 1..Len(arr) THEN Num(arr[i + 1]) ELSE undefined

\* arr[i] where the elements are strings
StrAt(arr, i) == IF i + 1 \in 1..Len(arr) THEN arr[i + 1] ELSE UndefinedStr

\* a > b, a < b on possibly-undefined numbers: false when either is undefined
JsGt(a, b) == IsNum(a) /\ IsNum(b) /\ Val(a) > Val(b)

JsLt(a, b) == IsNum(a) /\ IsNum(b) /\ Val(a) < Val(b)

Abs(v) == IF v < 0 THEN -v ELSE v

Min2(a, b) == IF a <= b THEN a ELSE b

Max2(a, b) == IF a >= b THEN a ELSE b

-----------------------------------------------------------------------------
(* Step 1: computePositionStats *)

\* heatmap.map(row => row[posIndex])
\* (mutant) the column of position 0 is read for every position
ColumnOfFirst(hm, posIndex) == [a \in 1..Len(hm) |-> At(hm[a], 0)]

Column(hm, posIndex) == [a \in 1..Len(hm) |-> At(hm[a], posIndex)]

\* (mutant) v >= improve
CountImproveInclusive(column, improve) ==
    Cardinality({a \in DOMAIN column :
                    IsNum(column[a]) /\ Val(column[a]) >= improve})

\* column.filter(v => v > improve).length
CountImprove(column, improve) ==
    Cardinality({a \in DOMAIN column : JsGt(column[a], Num(improve))})

\* column.filter(v => v < degrade).length
CountDegrade(column, degrade) ==
    Cardinality({a \in DOMAIN column : JsLt(column[a], Num(degrade))})

\* column.filter(v => Math.abs(v) < neutral_abs).length
\* (mutant) v < neutral_abs, without Math.abs
CountNeutralNoAbs(column, neutral_abs) ==
    Cardinality({a \in DOMAIN column :
                    IsNum(column[a]) /\ Val(column[a]) < neutral_abs})

CountNeutral(column, neutral_abs) ==
    Cardinality({a \in DOMAIN column :
                    IsNum(column[a]) /\ Abs(Val(column[a])) < neutral_abs})

\* (mutant) score >= best_score, score <= worst_score: the last occurrence wins
BestWorstStepLastWins(acc, score, aa) ==
    LET b == IF IsNum(score) /\ IsNum(acc.best_score)
                /\ Val(score) >= Val(acc.best_score)
             THEN [acc EXCEPT !.best_score = score, !.best_AA = aa]
             ELSE acc
    IN  IF IsNum(score) /\ IsNum(b.worst_score) /\ Val(score) <= Val(b.worst_score)
        THEN [b EXCEPT !.worst_score = score, !.worst_AA = aa]
        ELSE b

\* one iteration of column.forEach((score, aaIndex) => ...), aaIndex = k - 1
BestWorstStep(acc, score, aa) ==
    LET b == IF JsGt(score, acc.best_score)
             THEN [acc EXCEPT !.best_score = score, !.best_AA = aa]
             ELSE acc
    IN  IF JsLt(score, b.worst_score)
        THEN [b EXCEPT !.worst_score = score, !.worst_AA = aa]
        ELSE b

RECURSIVE BestWorstScan(_, _, _, _)
BestWorstScan(column, aaList, k, acc) ==
    IF k > Len(column) THEN acc
    ELSE BestWorstScan(column, aaList, k + 1,
                       BestWorstStep(acc, column[k], StrAt(aaList, k - 1)))

computePositionStats(hm, posIndex, wtAA, cfg) ==
    LET column == Column(hm, posIndex)
        th     == cfg.thresholds
        first  == IF Len(column) > 0 THEN column[1] ELSE undefined
        bw     == BestWorstScan(column, cfg.aa_list, 1,
                      [best_AA  |-> StrAt(cfg.aa_list, 0), best_score  |-> first,
                       worst_AA |-> StrAt(cfg.aa_list, 0), worst_score |-> first])
    IN  [posIndex    |-> posIndex,
         pos1        |-> posIndex + 1,
         wtAA        |-> wtAA,
         column      |-> column,
         num_improve |-> CountImprove(column, th.improve),
         num_degrade |-> CountDegrade(column, th.degrade),
         num_neutral |-> CountNeutral(column, th.neutral_abs),
         best_AA     |-> bw.best_AA,
         best_score  |-> bw.best_score,
         worst_AA    |-> bw.worst_AA,
         worst_score |-> bw.worst_score,
         max_score   |-> bw.best_score]

-----------------------------------------------------------------------------
(* Step 2: classifyPosition *)

\* cond.<key> !== undefined && <the bound is broken>
BoundBroken(cond, key, n) ==
    /\ key \in DOMAIN cond
    /\ CASE key = "num_degrade_gte" -> n < cond[key]
         [] key = "num_degrade_lte" -> n > cond[key]
         [] key = "num_improve_gte" -> n < cond[key]
         [] key = "num_improve_lte" -> n > cond[key]

\* the value of `matches` at the end of the loop body
RuleMatches(rule, stats) ==
    LET cond == rule.conditions
    IN  /\ ~BoundBroken(cond, "num_degrade_gte", stats.num_degrade)
        /\ ~BoundBroken(cond, "num_degrade_lte", stats.num_degrade)
        /\ ~BoundBroken(cond, "num_improve_gte", stats.num_improve)
        /\ ~BoundBroken(cond, "num_improve_lte", stats.num_improve)

FallbackClass == [classId |-> "neutral", classLabel |-> "Neutral / tolerant"]

RECURSIVE ClassifyFrom(_, _, _)
ClassifyFrom(rules, k, stats) ==
    IF k > Len(rules) THEN FallbackClass
    ELSE IF RuleMatches(rules[k], stats)
         THEN [classId |-> rules[k].id, classLabel |-> rules[k].label]
         ELSE ClassifyFrom(rules, k + 1, stats)

\* (mutant) the last matching rule wins
RECURSIVE ClassifyLastFrom(_, _, _)
ClassifyLastFrom(rules, k, stats) ==
    IF k < 1 THEN FallbackClass
    ELSE IF RuleMatches(rules[k], stats)
         THEN [classId |-> rules[k].id, classLabel |-> rules[k].label]
         ELSE ClassifyLastFrom(rules, k - 1, stats)

classifyPositionLastMatch(stats, cfg) ==
    ClassifyLastFrom(cfg.position_class_rules, Len(cfg.position_class_rules), stats)

\* (mutant) no built-in fallback: the last rule of the list is the default
classifyPositionNoFallback(stats, cfg) ==
    LET rules == cfg.position_class_rules
        c     == ClassifyFrom(rules, 1, stats)
    IN  IF \E k \in 1..Len(rules) : RuleMatches(rules[k], stats) THEN c
        ELSE IF Len(rules) > 0
             THEN [classId |-> rules[Len(rules)].id,
                   classLabel |-> rules[Len(rules)].label]
             ELSE [classId |-> UndefinedStr, classLabel |-> UndefinedStr]

classifyPosition(stats, cfg) == ClassifyFrom(cfg.position_class_rules, 1, stats)

-----------------------------------------------------------------------------
(* Exact rational arithmetic for the means *)

RECURSIVE Gcd(_, _)
Gcd(a, b) == IF b = 0 THEN a ELSE Gcd(b, a % b)

NaN == [n |-> 0, d |-> 0]

\* n / d, in lowest terms with a positive denominator; x / 0 is NaN here
\* because the only division by zero of the source is 0 / 0
Rat(n, d) ==
    IF d = 0 THEN NaN
    ELSE LET g == Gcd(Abs(n), Abs(d))
             s == IF d < 0 THEN -1 ELSE 1
         IN  [n |-> (s * n) \div g, d |-> (s * d) \div g]

IntRat(v) == [n |-> v, d |-> 1]

IsNaN(a) == a.d = 0

RatAdd(a, b) == IF IsNaN(a) \/ IsNaN(b) THEN NaN
                ELSE Rat(a.n * b.d + b.n * a.d, a.d * b.d)

RatSub(a, b) == IF IsNaN(a) \/ IsNaN(b) THEN NaN
                ELSE Rat(a.n * b.d - b.n * a.d, a.d * b.d)

RatDivInt(a, k) == IF IsNaN(a) \/ k = 0 THEN NaN ELSE Rat(a.n, a.d * k)

RatAbs(a) == [n |-> Abs(a.n), d |-> a.d]

\* comparisons with NaN are false
RatLt(a, b) == ~IsNaN(a) /\ ~IsNaN(b) /\ a.n * b.d < b.n * a.d

RatGt(a, b) == RatLt(b, a)

RatGe(a, b) == ~IsNaN(a) /\ ~IsNaN(b) /\ a.n * b.d >= b.n * a.d

\* values.reduce((a, b) => a + b, 0)
RECURSIVE SumInts(_)
SumInts(s) == IF s = <<>> THEN 0 ELSE s[1] + SumInts(Tail(s))

RECURSIVE SumRats(_)
SumRats(s) == IF s = <<>> THEN IntRat(0) ELSE RatAdd(s[1], SumRats(Tail(s)))

\* Math.max(...values), Math.min(...values) of a non-empty list of means
RECURSIVE RatMax(_)
RatMax(s) == IF Len(s) = 1 THEN s[1]
             ELSE LET m == RatMax(Tail(s)) IN IF RatLt(s[1], m) THEN m ELSE s[1]

RECURSIVE RatMin(_)
RatMin(s) == IF Len(s) = 1 THEN s[1]
             ELSE LET m == RatMin(Tail(s)) IN IF RatLt(m, s[1]) THEN m ELSE s[1]

-----------------------------------------------------------------------------
(* Arrays *)

\* arr.indexOf(x), 0-based, -1 when absent
IndexOf(arr, x) ==
    IF \E i \in 1..Len(arr) : arr[i] = x
    THEN (CHOOSE i \in 1..Len(arr) :
              arr[i] = x /\ \A j \in 1..(i - 1) : arr[j] # x) - 1
    ELSE -1

\* arr.includes(x)
Includes(arr, x) == \E i \in 1..Len(arr) : arr[i] = x

\* arr.filter(keep)
RECURSIVE FilterSeq(_, _)
FilterSeq(arr, keep) ==
    IF arr = <<>> THEN <<>>
    ELSE (IF Head(arr) \in keep THEN <<Head(arr)>> ELSE <<>>)
         \o FilterSeq(Tail(arr), keep)

\* arr.slice(0, end): a negative end counts from the end of the array
Slice0(arr, end) ==
    LET stop == IF end < 0 THEN Max2(Len(arr) + end, 0) ELSE Min2(end, Len(arr))
    IN  SubSeq(arr, 1, stop)

\* Array.prototype.sort is stable: the element with sort key keys[i] goes
\* after every element with a smaller key and after the earlier elements
\* with the same key
SortRank(keys, i) ==
    Cardinality({j \in 1..Len(keys) :
                    keys[j] < keys[i] \/ (keys[j] = keys[i] /\ j < i)}) + 1

\* the indices of the array in sorted (ascending key) order
StableOrder(keys) ==
    [r \in 1..Len(keys) |-> CHOOSE i \in 1..Len(keys) : SortRank(keys, i) = r]

-----------------------------------------------------------------------------
(* Step 3: analyzeChemistryGroups *)

\* config.aa_groups is an object: a list of (name, members) entries in key
\* order, names distinct and non-empty
GroupNames(aa_groups) == [g \in 1..Len(aa_groups) |-> aa_groups[g].name]

HasGroup(aa_groups, name) == \E g \in 1..Len(aa_groups) : aa_groups[g].name = name

GroupMembers(aa_groups, name) ==
    aa_groups[CHOOSE g \in 1..Len(aa_groups) : aa_groups[g].name = name].members

\* aaMembers.map(aa => idx >= 0 ? column[idx] : NaN).filter(v => !isNaN(v))
RECURSIVE MemberValues(_, _, _)
MemberValues(members, column, aaList) ==
    IF members = <<>> THEN <<>>
    ELSE LET idx == IndexOf(aaList, Head(members))
             v   == IF idx >= 0 THEN
                        (IF idx + 1 \in 1..Len(column) THEN column[idx + 1]
                         ELSE undefined)
                    ELSE undefined
         IN  (IF IsNum(v) THEN <<Val(v)>> ELSE <<>>)
             \o MemberValues(Tail(members), column, aaList)

\* (mutant) a member that is not in aa_list counts as an entry of 0
GroupMeanAbsentAsZero(members, column, aaList) ==
    LET values == MemberValues(members, column, aaList)
    IN  IF Len(members) > 0 THEN Rat(SumInts(values), Len(members)) ELSE IntRat(0)

GroupMean(members, column, aaList) ==
    LET values == MemberValues(members, column, aaList)
    IN  IF Len(values) > 0 THEN Rat(SumInts(values), Len(values)) ELSE IntRat(0)

\* groupNames.find(g => group_means[g] === m)
FirstWithMean(names, group_means, m) ==
    names[CHOOSE g \in 1..Len(names) :
              /\ group_means[names[g]] = m
              /\ \A h \in 1..(g - 1) : group_means[names[h]] # m]

\* (mutant) the margin over the other groups is not tested
DominantBeneficialNoMargin(names, group_means, th) ==
    IF Len(names) = 0 THEN null
    ELSE LET maxMean  == RatMax([g \in 1..Len(names) |-> group_means[names[g]]])
             maxGroup == FirstWithMean(names, group_means, maxMean)
         IN  IF RatGt(maxMean, IntRat(th.group_beneficial_min))
             THEN maxGroup ELSE null

DominantBeneficial(names, group_means, th) ==
    IF Len(names) = 0 THEN null
    ELSE LET maxMean  == RatMax([g \in 1..Len(names) |-> group_means[names[g]]])
             maxGroup == FirstWithMean(names, group_means, maxMean)
         IN  IF /\ RatGt(maxMean, IntRat(th.group_beneficial_min))
                /\ \A g \in 1..Len(names) :
                      names[g] # maxGroup =>
                          RatGe(RatSub(maxMean, group_means[names[g]]),
                                IntRat(th.group_margin))
             THEN maxGroup ELSE null

\* (mutant) the margin below the other groups is not tested
DominantHarmfulNoMargin(names, group_means, th) ==
    IF Len(names) = 0 THEN null
    ELSE LET minMean  == RatMin([g \in 1..Len(names) |-> group_means[names[g]]])
             minGroup == FirstWithMean(names, group_means, minMean)
         IN  IF RatLt(minMean, IntRat(th.group_harmful_max))
             THEN minGroup ELSE null

DominantHarmful(names, group_means, th) ==
    IF Len(names) = 0 THEN null
    ELSE LET minMean  == RatMin([g \in 1..Len(names) |-> group_means[names[g]]])
             minGroup == FirstWithMean(names, group_means, minMean)
         IN  IF /\ RatLt(minMean, IntRat(th.group_harmful_max))
                /\ \A g \in 1..Len(names) :
                      names[g] # minGroup =>
                          RatGe(RatSub(group_means[names[g]], minMean),
                                IntRat(th.group_margin))
             THEN minGroup ELSE null

\* (mutant) the conflict between the two flags is not resolved
analyzeChemistryGroupsNoConflict(column, aaList, cfg) ==
    LET names == GroupNames(cfg.aa_groups)
        group_means ==
            [name \in {names[g] : g \in 1..Len(names)} |->
                GroupMean(GroupMembers(cfg.aa_groups, name), column, aaList)]
    IN  [group_means |-> group_means,
         dominant_beneficial_group |->
             DominantBeneficial(names, group_means, cfg.thresholds),
         dominant_harmful_group |->
             DominantHarmful(names, group_means, cfg.thresholds)]

\* (mutant) a conflict clears both flags
analyzeChemistryGroupsClearBoth(column, aaList, cfg) ==
    LET r == analyzeChemistryGroupsNoConflict(column, aaList, cfg)
        conflict == /\ r.dominant_beneficial_group = r.dominant_harmful_group
                    /\ r.dominant_beneficial_group # null
    IN  IF conflict
        THEN [r EXCEPT !.dominant_beneficial_group = null,
                       !.dominant_harmful_group = null]
        ELSE r

analyzeChemistryGroups(column, aaList, cfg) ==
    LET names == GroupNames(cfg.aa_groups)
        group_means ==
            [name \in {names[g] : g \in 1..Len(names)} |->
                GroupMean(GroupMembers(cfg.aa_groups, name), column, aaList)]
        ben  == DominantBeneficial(names, group_means, cfg.thresholds)
        harm == DominantHarmful(names, group_means, cfg.thresholds)
        conflict == ben = harm /\ ben # null
        \* absBeneficial > absHarmful, both the absolute mean of the same group
        keepBen == conflict /\ RatGt(RatAbs(group_means[ben]), RatAbs(group_means[harm]))
    IN  [group_means |-> group_means,
         dominant_beneficial_group |-> IF conflict /\ ~keepBen THEN null ELSE ben,
         dominant_harmful_group    |-> IF conflict /\ keepBen THEN null ELSE harm]

-----------------------------------------------------------------------------
(* Step 4: shouldApplyChargedOverride *)

\* positive.includes(wtAA) || negative.includes(wtAA) reads a property of
\* undefined when the group is not configured: a TypeError
ChargedOverrideThrows(wtAA, classId, cfg) ==
    /\ classId = "highly_sensitive"
    /\ \/ ~HasGroup(cfg.aa_groups, "positive")
       \/ /\ ~Includes(GroupMembers(cfg.aa_groups, "positive"), wtAA)
          /\ ~HasGroup(cfg.aa_groups, "negative")

\* (mutant) only the positive group is consulted
shouldApplyChargedOverridePositiveOnly(wtAA, classId, cfg) ==
    IF classId # "highly_sensitive" THEN FALSE
    ELSE Includes(GroupMembers(cfg.aa_groups, "positive"), wtAA)

shouldApplyChargedOverride(wtAA, classId, cfg) ==
    IF classId # "highly_sensitive" THEN FALSE
    ELSE \/ Includes(GroupMembers(cfg.aa_groups, "positive"), wtAA)
         \/ Includes(GroupMembers(cfg.aa_groups, "negative"), wtAA)

-----------------------------------------------------------------------------
(* Step 5: markExcellentTargets *)

\* (mutant) the class of a position is not looked at
markExcellentTargetsAnyClass(stats, classes, cfg) ==
    LET th == cfg.thresholds
        keep == {i \in 1..Len(stats) :
                    /\ IsNum(stats[i].max_score)
                    /\ Val(stats[i].max_score) >= th.top_opt_site_delta}
        candidates == FilterSeq([i \in 1..Len(stats) |-> i], keep)
        keys   == [c \in 1..Len(candidates) |-> -Val(stats[candidates[c]].max_score)]
        order  == StableOrder(keys)
        sorted == [r \in 1..Len(candidates) |-> candidates[order[r]]]
        topN   == Slice0(sorted, th.top_opt_site_max_num)
    IN  {stats[topN[r]].posIndex : r \in 1..Len(topN)}

\* (mutant) the candidates are sorted by max_score ascending
markExcellentTargetsAscending(stats, classes, cfg) ==
    LET th == cfg.thresholds
        keep == {i \in 1..Len(stats) :
                    /\ classes[i].classId = "highly_designable"
                    /\ IsNum(stats[i].max_score)
                    /\ Val(stats[i].max_score) >= th.top_opt_site_delta}
        candidates == FilterSeq([i \in 1..Len(stats) |-> i], keep)
        keys   == [c \in 1..Len(candidates) |-> Val(stats[candidates[c]].max_score)]
        order  == StableOrder(keys)
        sorted == [r \in 1..Len(candidates) |-> candidates[order[r]]]
        topN   == Slice0(sorted, th.top_opt_site_max_num)
    IN  {stats[topN[r]].posIndex : r \in 1..Len(topN)}

markExcellentTargets(stats, classes, cfg) ==
    LET th == cfg.thresholds
        keep == {i \in 1..Len(stats) :
                    /\ classes[i].classId = "highly_designable"
                    /\ IsNum(stats[i].max_score)
                    /\ Val(stats[i].max_score) >= th.top_opt_site_delta}
        candidates == FilterSeq([i \in 1..Len(stats) |-> i], keep)
        \* (a, b) => b.stats.max_score - a.stats.max_score: descending
        keys   == [c \in 1..Len(candidates) |-> -Val(stats[candidates[c]].max_score)]
        order  == StableOrder(keys)
        sorted == [r \in 1..Len(candidates) |-> candidates[order[r]]]
        topN   == Slice0(sorted, th.top_opt_site_max_num)
    IN  {stats[topN[r]].posIndex : r \in 1..Len(topN)}

-----------------------------------------------------------------------------
(* Step 6: computeGlobalPreferences *)

\* heatmap[aaIndex] is undefined for a residue without a row: row.reduce throws
GlobalPreferencesThrows(hm, cfg) == Len(hm) < Len(cfg.aa_list)

\* (mutant) entries on a threshold are counted
AAPreferenceInclusive(aa, row, th) ==
    [aa   |-> aa,
     mean |-> Rat(SumInts(row), Len(row)),
     improve_count |-> Cardinality({p \in 1..Len(row) : row[p] >= th.improve}),
     degrade_count |-> Cardinality({p \in 1..Len(row) : row[p] <= th.degrade})]

AAPreference(aa, row, th) ==
    [aa   |-> aa,
     mean |-> Rat(SumInts(row), Len(row)),
     improve_count |-> Cardinality({p \in 1..Len(row) : row[p] > th.improve}),
     degrade_count |-> Cardinality({p \in 1..Len(row) : row[p] < th.degrade})]

\* aa_prefs.find(p => p.aa === aa): pref ? pref.mean : 0
MemberPref(aa_prefs, aa) ==
    IF \E i \in 1..Len(aa_prefs) : aa_prefs[i].aa = aa
    THEN aa_prefs[CHOOSE i \in 1..Len(aa_prefs) :
                      /\ aa_prefs[i].aa = aa
                      /\ \A j \in 1..(i - 1) : aa_prefs[j].aa # aa].mean
    ELSE IntRat(0)

GroupPreference(group, aa_prefs) ==
    LET memberPrefs == [m \in 1..Len(group.members) |->
                           MemberPref(aa_prefs, group.members[m])]
    IN  [group |-> group.name,
         mean  |-> RatDivInt(SumRats(memberPrefs), Len(memberPrefs))]

\* (mutant) the group mean is the mean over all raw values of the member rows
GroupPreferenceRaw(group, hm, aaList) ==
    LET rows == [m \in 1..Len(group.members) |->
                    IF IndexOf(aaList, group.members[m]) >= 0
                    THEN hm[IndexOf(aaList, group.members[m]) + 1] ELSE <<>>]
        total == SumInts([m \in 1..Len(rows) |-> SumInts(rows[m])])
        count == SumInts([m \in 1..Len(rows) |-> Len(rows[m])])
    IN  [group |-> group.name, mean |-> Rat(total, count)]

computeGlobalPreferencesRaw(hm, cfg) ==
    [aa_prefs    |-> [a \in 1..Len(cfg.aa_list) |->
                         AAPreference(cfg.aa_list[a], hm[a], cfg.thresholds)],
     group_prefs |-> [g \in 1..Len(cfg.aa_groups) |->
                         GroupPreferenceRaw(cfg.aa_groups[g], hm, cfg.aa_list)]]

computeGlobalPreferences(hm, cfg) ==
    LET aa_prefs == [a \in 1..Len(cfg.aa_list) |->
                        AAPreference(cfg.aa_list[a], hm[a], cfg.thresholds)]
    IN  [aa_prefs    |-> aa_prefs,
         group_prefs |-> [g \in 1..Len(cfg.aa_groups) |->
                             GroupPreference(cfg.aa_groups[g], aa_prefs)]]

-----------------------------------------------------------------------------
(* Step 7: rankMutations *)

\* (mutant) self-substitutions are not skipped
RECURSIVE RowMutationsAll(_, _, _, _, _)
RowMutationsAll(row, aaIndex, posIndex, wt, aaList) ==
    IF posIndex >= Len(row) THEN <<>>
    ELSE <<[fromAA |-> StrAt(wt, posIndex), toAA |-> StrAt(aaList, aaIndex),
            position |-> posIndex + 1, deltaBFI |-> row[posIndex + 1]]>>
         \o RowMutationsAll(row, aaIndex, posIndex + 1, wt, aaList)

\* the inner forEach over one row: the mutations of row aaIndex, by position
RECURSIVE RowMutations(_, _, _, _, _)
RowMutations(row, aaIndex, posIndex, wt, aaList) ==
    IF posIndex >= Len(row) THEN <<>>
    ELSE LET fromAA == StrAt(wt, posIndex)
             toAA   == StrAt(aaList, aaIndex)
         IN  (IF fromAA # toAA
              THEN <<[fromAA |-> fromAA, toAA |-> toAA,
                      position |-> posIndex + 1, deltaBFI |-> row[posIndex + 1]]>>
              ELSE <<>>)
             \o RowMutations(row, aaIndex, posIndex + 1, wt, aaList)

\* the outer forEach over the rows
RECURSIVE AllMutations(_, _, _, _)
AllMutations(hm, aaIndex, wt, aaList) ==
    IF aaIndex >= Len(hm) THEN <<>>
    ELSE RowMutations(hm[aaIndex + 1], aaIndex, 0, wt, aaList)
         \o AllMutations(hm, aaIndex + 1, wt, aaList)

\* (mutant) the copy of the list is not sorted
SortedBeneficialUnsorted(all) == all

SortedBeneficial(all) ==
    LET order == StableOrder([m \in 1..Len(all) |-> -all[m].deltaBFI])
    IN  [r \in 1..Len(all) |-> all[order[r]]]

\* (mutant) the ascending list is the descending one reversed
SortedHarmfulReversed(all) ==
    LET desc == SortedBeneficial(all)
    IN  [r \in 1..Len(all) |-> desc[Len(all) + 1 - r]]

SortedHarmful(all) ==
    LET order == StableOrder([m \in 1..Len(all) |-> all[m].deltaBFI])
    IN  [r \in 1..Len(all) |-> all[order[r]]]

rankMutations(hm, wt, aaList, topK) ==
    LET allMutations == AllMutations(hm, 0, wt, aaList)
    IN  [topBeneficial |-> Slice0(SortedBeneficial(allMutations), topK),
         topHarmful    |-> Slice0(SortedHarmful(allMutations), topK)]

-----------------------------------------------------------------------------
(* Step 8: text generation *)

\* A string that may hold {{name}} placeholders is a list of tokens:
\* <<"lit", text>> is literal text and <<"ph", name>> is the text {{name}}.
\* Values substituted into a template are literal text.
Lit(str) == <<"lit", str>>

Ph(name) == <<"ph", name>>

\* undefined where a string is expected (a missing template or explanation)
UndefinedText == <<<<"undefined", "">>>>

TextOf(obj, key) == IF key \in DOMAIN obj THEN obj[key] ELSE UndefinedText

\* result.replace(new RegExp('{{key}}', 'g'), String(value))
ReplaceAll(text, key, value) ==
    [t \in 1..Len(text) |-> IF text[t] = Ph(key) THEN Lit(value) ELSE text[t]]

\* Object.entries(vars).forEach(([key, value]) => ...), vars a list of
\* <<key, String(value)>> in insertion order
RECURSIVE fillTemplate(_, _)
fillTemplate(template, vs) ==
    IF vs = <<>> THEN template
    ELSE fillTemplate(ReplaceAll(template, Head(vs)[1], Head(vs)[2]), Tail(vs))

\* undefined.replace(...) is a TypeError; with no variable nothing is called
FillThrows(template, vs) == template = UndefinedText /\ vs # <<>>

TwoDigits(k) == IF k < 10 THEN "0" \o ToString(k) ELSE ToString(k)

\* (v / 100).toFixed(2) for a whole number of hundredths
FixedHundredths(negative, h) ==
    (IF negative THEN "-" ELSE "") \o ToString(h \div 100) \o "." \o TwoDigits(h % 100)

\* score.toFixed(2)
ToFixed2(v) == FixedHundredths(v < 0, Abs(v))

\* mean.toFixed(2): the nearest hundredth, a tie going away from zero
RatToFixed2(r) ==
    IF IsNaN(r) THEN "NaN"
    ELSE FixedHundredths(r.n < 0, (2 * Abs(r.n) + r.d) \div (2 * r.d))

\* parts.join(sep): an undefined element is rendered as the empty string
\* (mutant) the parts are joined without the separator
RECURSIVE JoinTextsNoSeparator(_, _)
JoinTextsNoSeparator(parts, sep) ==
    IF parts = <<>> THEN <<>>
    ELSE (IF Head(parts) = UndefinedText THEN <<>> ELSE Head(parts))
         \o JoinTextsNoSeparator(Tail(parts), sep)

RECURSIVE JoinTexts(_, _)
JoinTexts(parts, sep) ==
    IF parts = <<>> THEN <<>>
    ELSE (IF Head(parts) = UndefinedText THEN <<>> ELSE Head(parts))
         \o (IF Len(parts) > 1 THEN <<Lit(sep)>> ELSE <<>>)
         \o JoinTexts(Tail(parts), sep)

\* the chemistry sentences and the excellent-target sentence
\* (mutant) the override sentence is added to the ordinary sentences
ChemistryTextNoSuppress(chemistry, isChargedOverride, isExcellentTarget, cfg) ==
    (IF isChargedOverride
     THEN <<TextOf(cfg.templates, "conserved_charged_override")>>
     ELSE <<>>)
    \o (IF chemistry.dominant_beneficial_group # null
        THEN <<TextOf(cfg.beneficial_explanations,
                      chemistry.dominant_beneficial_group)>>
        ELSE <<>>)
    \o (IF chemistry.dominant_harmful_group # null
        THEN <<TextOf(cfg.harmful_explanations,
                      chemistry.dominant_harmful_group)>>
        ELSE <<>>)
    \o (IF isExcellentTarget THEN <<TextOf(cfg.templates, "excellent_target")>>
        ELSE <<>>)

ChemistryText(chemistry, isChargedOverride, isExcellentTarget, cfg) ==
    (IF isChargedOverride
     THEN <<TextOf(cfg.templates, "conserved_charged_override")>>
     ELSE (IF chemistry.dominant_beneficial_group # null
           THEN <<TextOf(cfg.beneficial_explanations,
                         chemistry.dominant_beneficial_group)>>
           ELSE <<>>)
          \o (IF chemistry.dominant_harmful_group # null
              THEN <<TextOf(cfg.harmful_explanations,
                            chemistry.dominant_harmful_group)>>
              ELSE <<>>))
    \o (IF isExcellentTarget THEN <<TextOf(cfg.templates, "excellent_target")>>
        ELSE <<>>)

HeaderVars(stats, classification) ==
    << <<"pos1", ToString(stats.pos1)>>,
       <<"wt", stats.wtAA>>,
       <<"class_label", classification.classLabel>> >>

BasicStatsVars(stats) ==
    << <<"best_AA", stats.best_AA>>,
       <<"best_score", ToFixed2(Val(stats.best_score))>>,
       <<"worst_AA", stats.worst_AA>>,
       <<"worst_score", ToFixed2(Val(stats.worst_score))>>,
       <<"num_improve", ToString(stats.num_improve)>>,
       <<"num_degrade", ToString(stats.num_degrade)>>,
       <<"num_neutral", ToString(stats.num_neutral)>> >>

\* undefined.replace in fillTemplate, or undefined.toFixed
PositionTextThrows(stats, cfg) ==
    \/ TextOf(cfg.templates, "position_header") = UndefinedText
    \/ ~IsNum(stats.best_score)
    \/ ~IsNum(stats.worst_score)
    \/ TextOf(cfg.templates, "position_basic_stats") = UndefinedText

generatePositionText(stats, classification, chemistry, isChargedOverride, isExcellentTarget, cfg) ==
    LET header == fillTemplate(TextOf(cfg.templates, "position_header"),
                               HeaderVars(stats, classification))
        basic_stats == fillTemplate(TextOf(cfg.templates, "position_basic_stats"),
                                    BasicStatsVars(stats))
        chemistry_text == ChemistryText(chemistry, isChargedOverride,
                                        isExcellentTarget, cfg)
    IN  [posIndex    |-> stats.posIndex,
         pos1        |-> stats.pos1,
         wtAA        |-> stats.wtAA,
         classId     |-> classification.classId,
         classLabel  |-> classification.classLabel,
         num_improve |-> stats.num_improve,
         num_degrade |-> stats.num_degrade,
         num_neutral |-> stats.num_neutral,
         best_AA     |-> stats.best_AA,
         best_score  |-> stats.best_score,
         worst_AA    |-> stats.worst_AA,
         worst_score |-> stats.worst_score,
         is_conserved_charged |-> isChargedOverride,
         is_excellent_target  |-> isExcellentTarget,
         header         |-> header,
         basic_stats    |-> basic_stats,
         chemistry_text |-> chemistry_text,
         full_text      |-> JoinTexts(<<header, basic_stats>> \o chemistry_text, " ")]

-----------------------------------------------------------------------------
(* interpretBFIMatrix: the position lists and the global summary *)

\* positions.filter(p => classIds has p.classId).map(p => p.pos1)
RECURSIVE Pos1Where(_, _)
Pos1Where(ps, keep) ==
    IF ps = <<>> THEN <<>>
    ELSE (IF keep[1] THEN <<Head(ps).pos1>> ELSE <<>>)
         \o Pos1Where(Tail(ps), Tail(keep))

WithClass(ps, classIds) ==
    Pos1Where(ps, [i \in 1..Len(ps) |-> ps[i].classId \in classIds])

\* list.join(', ')
RECURSIVE JoinNums(_)
JoinNums(list) ==
    IF list = <<>> THEN ""
    ELSE ToString(Head(list))
         \o (IF Len(list) > 1 THEN ", " \o JoinNums(Tail(list)) ELSE "")

\* (mutant) an empty list is rendered as the empty string
ListOrEmpty(list) == JoinNums(list)

\* list.join(', ') || 'None'
ListOrNone(list) == IF JoinNums(list) = "" THEN "None" ELSE JoinNums(list)

\* group_prefs.reduce(...): <group>_mean -> mean.toFixed(2)
GroupMeansObj(group_prefs) ==
    [g \in 1..Len(group_prefs) |->
        <<group_prefs[g].group \o "_mean", RatToFixed2(group_prefs[g].mean)>>]

\* (mutant) sensitive_positions leaves out the highly sensitive positions
PositionListsModerateOnly(ps) ==
    [conserved_positions  |-> WithClass(ps, {"highly_sensitive"}),
     sensitive_positions  |-> WithClass(ps, {"moderately_sensitive"}),
     designable_positions |-> WithClass(ps, {"highly_designable", "moderately_designable"}),
     excellent_target_positions |->
         Pos1Where(ps, [i \in 1..Len(ps) |-> ps[i].is_excellent_target])]

PositionLists(ps) ==
    [conserved_positions  |-> WithClass(ps, {"highly_sensitive"}),
     sensitive_positions  |-> WithClass(ps, {"highly_sensitive", "moderately_sensitive"}),
     designable_positions |-> WithClass(ps, {"highly_designable", "moderately_designable"}),
     excellent_target_positions |->
         Pos1Where(ps, [i \in 1..Len(ps) |-> ps[i].is_excellent_target])]

SummaryThrows(cfg, group_prefs) ==
    \/ TextOf(cfg.templates, "global_structural_core") = UndefinedText
    \/ TextOf(cfg.templates, "global_sensitive") = UndefinedText
    \/ TextOf(cfg.templates, "global_designable") = UndefinedText
    \/ FillThrows(TextOf(cfg.templates, "global_group_preferences"),
                  GroupMeansObj(group_prefs))

GlobalSummary(cfg, lists, group_prefs) ==
    JoinTexts(
        << TextOf(cfg.templates, "global_summary_header"),
           fillTemplate(TextOf(cfg.templates, "global_structural_core"),
               << <<"core_positions", ListOrNone(lists.conserved_positions)>> >>),
           fillTemplate(TextOf(cfg.templates, "global_sensitive"),
               << <<"sensitive_positions", ListOrNone(lists.sensitive_positions)>> >>),
           fillTemplate(TextOf(cfg.templates, "global_designable"),
               << <<"designable_positions", ListOrNone(lists.designable_positions)>> >>),
           fillTemplate(TextOf(cfg.templates, "global_group_preferences"),
                        GroupMeansObj(group_prefs)) >>,
        " ")

TypeError(where) == [name |-> "TypeError", in |-> where]

-----------------------------------------------------------------------------
(* interpretBFIMatrix: the orchestrator, one action per step *)

L == Len(wtSeq)

\* Step 1: Array.from({ length: L }, (_, i) => computePositionStats(...))
Step1 ==
    /\ pc = "step1"
    /\ allStats' = [i \in 1..L |->
                       computePositionStats(heatmap, i - 1, wtSeq[i], config)]
    /\ pc' = "step2"
    /\ UNCHANGED <<heatmap, wtSeq, config, allClasses, allChemistry,
                   chargedOverrides, excellentTargets, prefs, ranked,
                   positions, result, error>>

\* Step 2: allStats.map(stats => classifyPosition(stats, config))
Step2 ==
    /\ pc = "step2"
    /\ allClasses' = [i \in 1..Len(allStats) |-> classifyPosition(allStats[i], config)]
    /\ pc' = "step3"
    /\ UNCHANGED <<heatmap, wtSeq, config, allStats, allChemistry,
                   chargedOverrides, excellentTargets, prefs, ranked,
                   positions, result, error>>

\* Step 3: allStats.map(stats => analyzeChemistryGroups(stats.column, aaList, config))
Step3 ==
    /\ pc = "step3"
    /\ allChemistry' = [i \in 1..Len(allStats) |->
                           analyzeChemistryGroups(allStats[i].column,
                                                  config.aa_list, config)]
    /\ pc' = "step4"
    /\ UNCHANGED <<heatmap, wtSeq, config, allStats, allClasses,
                   chargedOverrides, excellentTargets, prefs, ranked,
                   positions, result, error>>

\* Step 4: allStats.map((stats, i) => shouldApplyChargedOverride(...))
Step4 ==
    /\ pc = "step4"
    /\ IF \E i \in 1..Len(allStats) :
              ChargedOverrideThrows(allStats[i].wtAA, allClasses[i].classId, config)
       THEN /\ pc' = "threw"
            /\ error' = TypeError("shouldApplyChargedOverride")
            /\ UNCHANGED chargedOverrides
       ELSE /\ chargedOverrides' =
                   [i \in 1..Len(allStats) |->
                       shouldApplyChargedOverride(allStats[i].wtAA,
                                                  allClasses[i].classId, config)]
            /\ pc' = "step5"
            /\ UNCHANGED error
    /\ UNCHANGED <<heatmap, wtSeq, config, allStats, allClasses, allChemistry,
                   excellentTargets, prefs, ranked, positions, result>>

\* Step 5: markExcellentTargets(allStats, allClasses, config)
Step5 ==
    /\ pc = "step5"
    /\ excellentTargets' = markExcellentTargets(allStats, allClasses, config)
    /\ pc' = "step6"
    /\ UNCHANGED <<heatmap, wtSeq, config, allStats, allClasses, allChemistry,
                   chargedOverrides, prefs, ranked, positions, result, error>>

\* Step 6: computeGlobalPreferences(heatmap, config)
Step6 ==
    /\ pc = "step6"
    /\ IF GlobalPreferencesThrows(heatmap, config)
       THEN /\ pc' = "threw"
            /\ error' = TypeError("computeGlobalPreferences")
            /\ UNCHANGED prefs
       ELSE /\ prefs' = computeGlobalPreferences(heatmap, config)
            /\ pc' = "step7"
            /\ UNCHANGED error
    /\ UNCHANGED <<heatmap, wtSeq, config, allStats, allClasses, allChemistry,
                   chargedOverrides, excellentTargets, ranked, positions, result>>

\* Step 7: rankMutations(heatmap, wtSeq, aaList, config.thresholds.top_k_mutations)
Step7 ==
    /\ pc = "step7"
    /\ ranked' = rankMutations(heatmap, wtSeq, config.aa_list,
                               config.thresholds.top_k_mutations)
    /\ pc' = "step8"
    /\ UNCHANGED <<heatmap, wtSeq, config, allStats, allClasses, allChemistry,
                   chargedOverrides, excellentTargets, prefs, positions,
                   result, error>>

\* Step 8: allStats.map((stats, i) => generatePositionText(...))
Step8 ==
    /\ pc = "step8"
    /\ IF \E i \in 1..Len(allStats) : PositionTextThrows(allStats[i], config)
       THEN /\ pc' = "threw"
            /\ error' = TypeError("generatePositionText")
            /\ UNCHANGED positions
       ELSE /\ positions' =
                   [i \in 1..Len(allStats) |->
                       generatePositionText(allStats[i], allClasses[i],
                                            allChemistry[i], chargedOverrides[i],
                                            (i - 1) \in excellentTargets, config)]
            /\ pc' = "summary"
            /\ UNCHANGED error
    /\ UNCHANGED <<heatmap, wtSeq, config, allStats, allClasses, allChemistry,
                   chargedOverrides, excellentTargets, prefs, ranked, result>>

\* the position lists, the global summary and the returned object
Summarize ==
    /\ pc = "summary"
    /\ IF SummaryThrows(config, prefs.group_prefs)
       THEN /\ pc' = "threw"
            /\ error' = TypeError("fillTemplate")
            /\ UNCHANGED result
       ELSE /\ result' =
                   LET lists == PositionLists(positions)
                   IN  [positions |-> positions,
                        conserved_positions  |-> lists.conserved_positions,
                        sensitive_positions  |-> lists.sensitive_positions,
                        designable_positions |-> lists.designable_positions,
                        excellent_target_positions |-> lists.excellent_target_positions,
                        aa_preferences    |-> prefs.aa_prefs,
                        group_preferences |-> prefs.group_prefs,
                        topBeneficialMutations |-> ranked.topBeneficial,
                        topHarmfulMutations    |-> ranked.topHarmful,
                        total_positions |-> L,
                        structurally_conserved_count |-> Len(lists.conserved_positions),
                        global_summary |-> GlobalSummary(config, lists, prefs.group_prefs)]
            /\ pc' = "done"
            /\ UNCHANGED error
    /\ UNCHANGED <<heatmap, wtSeq, config, allStats, allClasses, allChemistry,
                   chargedOverrides, excellentTargets, prefs, ranked, positions>>

Next ==
    \/ Step1
    \/ Step2
    \/ Step3
    \/ Step4
    \/ Step5
    \/ Step6
    \/ Step7
    \/ Step8
    \/ Summarize

-----------------------------------------------------------------------------
(* Inputs *)

\* residues of the model, in aa_list order
AAOrder == <<"A", "K", "D", "F", "S", "G">>

\* the number of residues (matrix rows) when a step function is called directly
NumAA == 3

\* the longest wild-type sequence interpretBFIMatrix is called with
MaxLen == 2

\* directly called step functions see scores in -MaxScore..MaxScore
MaxScore == 2

\* the thresholds of the test configuration, in hundredths; the two list
\* sizes are scaled to the short sequences of the model
TestThresholds ==
    [improve |-> 30, degrade |-> -30, neutral_abs |-> 10,
     high_sensitive_degrade |-> 2, mod_sensitive_degrade |-> 1,
     high_design_improve |-> 2, mod_design_improve |-> 1,
     group_beneficial_min |-> 50, group_harmful_max |-> -50, group_margin |-> 30,
     top_opt_site_delta |-> 100, top_opt_site_max_num |-> 1,
     top_k_mutations |-> 2]

\* three of the six groups of the test configuration, in key order
TestGroups ==
    << [name |-> "hydrophobic", members |-> <<"A", "F">>],
       [name |-> "positive",    members |-> <<"K", "R">>],
       [name |-> "negative",    members |-> <<"D", "E">>] >>

\* the four rules of the test configuration, the counts scaled to two residues
TestRules ==
    << [id |-> "highly_sensitive", label |-> "Highly sensitive / intolerant",
        conditions |-> [k \in {"num_degrade_gte"} |-> 2]],
       [id |-> "moderately_sensitive", label |-> "Moderately sensitive",
        conditions |-> [k \in {"num_degrade_gte", "num_degrade_lte"} |-> 1]],
       [id |-> "highly_designable", label |-> "Highly designable / promising",
        conditions |-> [k \in {"num_improve_gte"} |-> 2]],
       [id |-> "moderately_designable", label |-> "Moderately designable",
        conditions |-> [k \in {"num_improve_gte", "num_improve_lte"} |-> 1]] >>

TestBeneficial ==
    [g \in {"hydrophobic", "positive", "negative"} |->
        CASE g = "hydrophobic" -> <<Lit("Hydrophobic residues are beneficial here.")>>
          [] g = "positive" -> <<Lit("Positively charged residues enhance activity.")>>
          [] g = "negative" -> <<Lit("Negatively charged residues are preferred.")>>]

TestHarmful ==
    [g \in {"hydrophobic", "positive", "negative"} |->
        CASE g = "hydrophobic" -> <<Lit("Hydrophobic residues are detrimental.")>>
          [] g = "positive" -> <<Lit("Positively charged residues are harmful.")>>
          [] g = "negative" -> <<Lit("Negatively charged residues destabilize.")>>]

TemplateNames ==
    {"position_header", "position_basic_stats", "conserved_charged_override",
     "excellent_target", "global_summary_header", "global_structural_core",
     "global_sensitive", "global_designable", "global_group_preferences"}

TestTemplates ==
    [t \in TemplateNames |->
        CASE t = "position_header" ->
                 <<Lit("Position "), Ph("pos1"), Lit(" ("), Ph("wt"), Lit("): "),
                   Ph("class_label"), Lit(".")>>
          [] t = "position_basic_stats" ->
                 <<Lit("Best: "), Ph("best_AA"), Lit(" (+"), Ph("best_score"),
                   Lit("), Worst: "), Ph("worst_AA"), Lit(" ("), Ph("worst_score"),
                   Lit("). Improve: "), Ph("num_improve"), Lit(", Degrade: "),
                   Ph("num_degrade"), Lit(", Neutral: "), Ph("num_neutral"), Lit(".")>>
          [] t = "conserved_charged_override" ->
                 <<Lit("This position has a charged WT residue and is highly sensitive, suggesting a critical electrostatic role.")>>
          [] t = "excellent_target" ->
                 <<Lit("Flagged as an excellent optimization target.")>>
          [] t = "global_summary_header" -> <<Lit("Global Analysis:")>>
          [] t = "global_structural_core" ->
                 <<Lit("Conserved core: "), Ph("core_positions"), Lit(".")>>
          [] t = "global_sensitive" ->
                 <<Lit("Sensitive: "), Ph("sensitive_positions"), Lit(".")>>
          [] t = "global_designable" ->
                 <<Lit("Designable: "), Ph("designable_positions"), Lit(".")>>
          [] t = "global_group_preferences" ->
                 <<Lit("Group preferences - Hydrophobic: "), Ph("hydrophobic_mean"),
                   Lit(", Positive: "), Ph("positive_mean"),
                   Lit(", Negative: "), Ph("negative_mean"), Lit(".")>>]

TestConfig(aaList) ==
    [aa_list    |-> aaList,
     thresholds |-> TestThresholds,
     aa_groups  |-> TestGroups,
     position_class_rules    |-> TestRules,
     beneficial_explanations |-> TestBeneficial,
     harmful_explanations    |-> TestHarmful,
     templates  |-> TestTemplates]

\* the locals of the orchestrator before the step that assigns them
NoClasses == allClasses = <<>>

NoChemistry == allChemistry = <<>>

NoOverrides == chargedOverrides = <<>>

NoTargets == excellentTargets = {}

NoOutput ==
    /\ prefs = <<>>
    /\ ranked = <<>>
    /\ positions = <<>>
    /\ result = <<>>
    /\ error = <<>>

-----------------------------------------------------------------------------
(* interpretBFIMatrix(heatmap, wtSeq, config) on well-formed input *)

\* the residues of the two-row matrices interpretBFIMatrix is called with
CallAAs == SubSeq(AAOrder, 1, 2)

CallScores == {-100, 0, 100}

Init ==
    /\ config = TestConfig(CallAAs)
    /\ \E n \in 0..MaxLen :
          /\ wtSeq \in [1..n -> {CallAAs[a] : a \in 1..Len(CallAAs)}]
          /\ heatmap \in [1..Len(CallAAs) -> [1..n -> CallScores]]
    /\ pc = "step1"
    /\ allStats = <<>>
    /\ NoClasses /\ NoChemistry /\ NoOverrides /\ NoTargets /\ NoOutput

Spec == Init /\ [][Next]_vars

-----------------------------------------------------------------------------
(* computePositionStats called on every column of a matrix *)

\* a column and its mirror image, under every threshold configuration
InitStats ==
    /\ \E improve \in {1, MaxScore}, degrade \in {-1, -MaxScore},
          neutral_abs \in {1, MaxScore} :
          config = [TestConfig(SubSeq(AAOrder, 1, NumAA)) EXCEPT
                        !.thresholds.improve = improve,
                        !.thresholds.degrade = degrade,
                        !.thresholds.neutral_abs = neutral_abs]
    /\ \E col \in [1..NumAA -> (-MaxScore)..MaxScore] :
          heatmap = [a \in 1..NumAA |-> <<col[a], -col[a]>>]
    /\ wtSeq = <<"A", "K">>
    /\ pc = "step1"
    /\ allStats = <<>>
    /\ NoClasses /\ NoChemistry /\ NoOverrides /\ NoTargets /\ NoOutput

SpecStats == InitStats /\ [][Step1]_vars

\* the entries of column i (1-based) of the matrix
ColumnEntries(i) == [a \in 1..Len(heatmap) |-> heatmap[a][i]]

RECURSIVE CountWhere(_, _)
CountWhere(s, good) ==
    IF s = <<>> THEN 0
    ELSE (IF Head(s) \in good THEN 1 ELSE 0) + CountWhere(Tail(s), good)

\* C6: computePositionStats reports num_improve = the number of column
\* entries strictly greater than improve, num_degrade = the number strictly
\* less than degrade and num_neutral = the number whose absolute value is
\* strictly less than neutral_abs; an entry equal to a threshold is counted
\* by none of the predicates that use that threshold.
C6_StrictCounts ==
    pc = "step2" =>
        \A i \in 1..Len(allStats) :
            LET col == ColumnEntries(i)
                th  == config.thresholds
                all == (-MaxScore - 1)..(MaxScore + 1)
            IN  /\ allStats[i].num_improve =
                       CountWhere(col, {v \in all : v > th.improve})
                /\ allStats[i].num_degrade =
                       CountWhere(col, {v \in all : v < th.degrade})
                /\ allStats[i].num_neutral =
                       CountWhere(col, {v \in all : v < th.neutral_abs
                                                     /\ -v < th.neutral_abs})
                /\ allStats[i].num_improve + CountWhere(col, {th.improve})
                       <= Len(col)
                /\ allStats[i].num_degrade + CountWhere(col, {th.degrade})
                       <= Len(col)
                /\ allStats[i].num_neutral
                       + CountWhere(col, {th.neutral_abs, -th.neutral_abs})
                       <= Len(col)

\* a column with an entry on each threshold and an entry beyond each
C6_Witness ==
    /\ pc = "step2"
    /\ \E i \in 1..Len(allStats) :
          LET col == ColumnEntries(i)
              th  == config.thresholds
          IN  /\ \E a \in 1..Len(col) : col[a] = th.improve
              /\ \E a \in 1..Len(col) : col[a] = th.degrade
              /\ \E a \in 1..Len(col) : col[a] > th.improve
              /\ allStats[i].num_improve = 1
              /\ allStats[i].num_degrade = 0

\* C7: for a non-empty column best_score is the maximum of the column and
\* best_AA the residue at the lowest aa_list index holding it, worst_score
\* the minimum and worst_AA the residue at the lowest index holding it, and
\* max_score equals best_score.
C7_BestWorstFirst ==
    pc = "step2" =>
        \A i \in 1..Len(allStats) :
            LET col == ColumnEntries(i)
                st  == allStats[i]
            IN  Len(col) > 0 =>
                  /\ \E a \in 1..Len(col) :
                        /\ st.best_score = Num(col[a])
                        /\ st.best_AA = config.aa_list[a]
                        /\ \A b \in 1..Len(col) : col[b] <= col[a]
                        /\ \A b \in 1..(a - 1) : col[b] < col[a]
                  /\ \E a \in 1..Len(col) :
                        /\ st.worst_score = Num(col[a])
                        /\ st.worst_AA = config.aa_list[a]
                        /\ \A b \in 1..Len(col) : col[b] >= col[a]
                        /\ \A b \in 1..(a - 1) : col[b] > col[a]
                  /\ st.max_score = st.best_score

\* the maximum is held by the second and the third residue but not the first,
\* and the minimum of the mirrored column likewise
C7_Witness ==
    /\ pc = "step2"
    /\ LET col == ColumnEntries(1)
       IN  /\ col[2] = col[3]
           /\ col[1] < col[2]
           /\ \A b \in 1..Len(col) : col[b] <= col[2]
    /\ allStats[1].best_AA = config.aa_list[2]
    /\ allStats[2].worst_AA = config.aa_list[2]

-----------------------------------------------------------------------------
(* classifyPosition called with any counts and any rule list *)

\* the largest count, and the largest bound of a rule
MaxCount == 2

\* the longest rule list
MaxRules == 2

ConditionKeys ==
    {"num_degrade_gte", "num_degrade_lte", "num_improve_gte", "num_improve_lte"}

\* every subset of the four bounds may be present; the present ones share a value
ConditionChoices ==
    UNION {[keys -> {t}] : keys \in SUBSET ConditionKeys, t \in 1..MaxCount}

\* the rule at index k of a list has the id and label of TestRules[k]
RuleLists ==
    UNION {[1..n -> ConditionChoices] : n \in 0..MaxRules}

RuleId(k) == IF k <= Len(TestRules) THEN TestRules[k].id ELSE "rule" \o ToString(k)

RuleLabel(k) == IF k <= Len(TestRules) THEN TestRules[k].label ELSE "Rule " \o ToString(k)

\* a PositionStats as the tests of classifyPosition build it
StatsWithCounts(num_improve, num_degrade) ==
    [posIndex |-> 0, pos1 |-> 1, wtAA |-> "A", column |-> <<>>,
     num_improve |-> num_improve, num_degrade |-> num_degrade, num_neutral |-> 0,
     best_AA |-> "K", best_score |-> Num(20), worst_AA |-> "D",
     worst_score |-> Num(-80), max_score |-> Num(20)]

InitClassify ==
    /\ \E conds \in RuleLists :
          config = [TestConfig(SubSeq(AAOrder, 1, NumAA)) EXCEPT
                        !.position_class_rules =
                            [k \in 1..Len(conds) |->
                                [id |-> RuleId(k), label |-> RuleLabel(k),
                                 conditions |-> conds[k]]]]
    /\ \E ni \in 0..MaxCount, nd \in 0..MaxCount :
          allStats = <<StatsWithCounts(ni, nd)>>
    /\ heatmap = <<>>
    /\ wtSeq = <<"A">>
    /\ pc = "step2"
    /\ NoClasses /\ NoChemistry /\ NoOverrides /\ NoTargets /\ NoOutput

SpecClassify == InitClassify /\ [][Step2]_vars

\* every bound present in the rule's conditions holds of the counts
Satisfies(stats, rule) ==
    LET c == rule.conditions
    IN  /\ "num_degrade_gte" \in DOMAIN c => stats.num_degrade >= c["num_degrade_gte"]
        /\ "num_degrade_lte" \in DOMAIN c => stats.num_degrade <= c["num_degrade_lte"]
        /\ "num_improve_gte" \in DOMAIN c => stats.num_improve >= c["num_improve_gte"]
        /\ "num_improve_lte" \in DOMAIN c => stats.num_improve <= c["num_improve_lte"]

SatisfiedRules(stats) ==
    {k \in 1..Len(config.position_class_rules) :
        Satisfies(stats, config.position_class_rules[k])}

\* C8: classifyPosition returns the (id, label) of the first rule, in list
\* order, all of whose present bounds hold; when several rules are satisfied
\* the result is the earliest of them and never a later one.
C8_FirstMatchWins ==
    pc = "step3" =>
        \A i \in 1..Len(allStats) :
            LET rules == config.position_class_rules
                sat   == SatisfiedRules(allStats[i])
            IN  sat # {} =>
                  \E k \in sat :
                      /\ \A j \in sat : k <= j
                      /\ allClasses[i].classId = rules[k].id
                      /\ allClasses[i].classLabel = rules[k].label
                      /\ \A j \in sat \ {k} : allClasses[i].classId # rules[j].id

\* the counts satisfy the first and the second rule, each through bounds
\* that are present, and the class is the first rule's
C8_Witness ==
    /\ pc = "step3"
    /\ Len(config.position_class_rules) >= 2
    /\ {1, 2} \subseteq SatisfiedRules(allStats[1])
    /\ DOMAIN config.position_class_rules[1].conditions # {}
    /\ DOMAIN config.position_class_rules[2].conditions # {}
    /\ allClasses[1].classId = config.position_class_rules[1].id

\* C9: classifyPosition returns a class for any counts and any rule list,
\* empty or incomplete; when no rule matches it is the built-in fallback with
\* classId 'neutral', so classId and classLabel are always defined.
C9_FallbackNeutral ==
    pc = "step3" =>
        /\ Len(allClasses) = Len(allStats)
        /\ \A i \in 1..Len(allStats) :
              /\ allClasses[i].classId # UndefinedStr
              /\ allClasses[i].classLabel # UndefinedStr
              /\ SatisfiedRules(allStats[i]) = {} =>
                    /\ allClasses[i].classId = "neutral"
                    /\ allClasses[i].classLabel = "Neutral / tolerant"

\* a non-empty rule list none of whose rules matches the counts
C9_Witness ==
    /\ pc = "step3"
    /\ Len(config.position_class_rules) >= 1
    /\ SatisfiedRules(allStats[1]) = {}
    /\ allClasses[1].classId = "neutral"

-----------------------------------------------------------------------------
(* analyzeChemistryGroups called on any column under any group configuration *)

\* the member lists a group is configured with: members that are not in
\* aa_list ("R", "E"), residues in several groups, and a group without members
HydrophobicChoices == {<<"A">>, <<"A", "F">>, <<"A", "K">>}

PositiveChoices == {<<"K">>, <<"K", "R">>, <<"A">>, <<>>}

NegativeChoices == {<<"D">>, <<"D", "E">>, <<"R">>}

\* one, two or three groups, in the key order of the test configuration
GroupConfigs ==
    {<<[name |-> "hydrophobic", members |-> h]>> : h \in HydrophobicChoices}
    \cup {<<[name |-> "hydrophobic", members |-> h],
            [name |-> "positive", members |-> p]>> :
              h \in HydrophobicChoices, p \in PositiveChoices}
    \cup {<<[name |-> "hydrophobic", members |-> h],
            [name |-> "positive", members |-> p],
            [name |-> "negative", members |-> n]>> :
              h \in HydrophobicChoices, p \in PositiveChoices, n \in NegativeChoices}

InitChem ==
    /\ \E groups \in GroupConfigs, bmin \in {0, 1}, margin \in {-1, 0, 1} :
          config = [TestConfig(SubSeq(AAOrder, 1, NumAA)) EXCEPT
                        !.aa_groups = groups,
                        !.thresholds.group_beneficial_min = bmin,
                        !.thresholds.group_harmful_max = -bmin,
                        !.thresholds.group_margin = margin]
    /\ \E col \in [1..NumAA -> (-MaxScore)..MaxScore] :
          heatmap = [a \in 1..NumAA |-> <<col[a]>>]
    /\ wtSeq = <<"A">>
    /\ allStats = <<computePositionStats(heatmap, 0, wtSeq[1], config)>>
    /\ pc = "step3"
    /\ NoClasses /\ NoChemistry /\ NoOverrides /\ NoTargets /\ NoOutput

SpecChem == InitChem /\ [][Step3]_vars

ConfiguredGroups == {config.aa_groups[g].name : g \in 1..Len(config.aa_groups)}

\* a - b >= k for two means a, b and a threshold k
MeanExceedsBy(a, b, k) == a.n * b.d - b.n * a.d >= k * a.d * b.d

\* a > k for a mean a and a threshold k
MeanAbove(a, k) == a.n > k * a.d

\* the conditions of the claim for group G at a position with the means m
BeneficialConditions(G, m) ==
    /\ \A H \in ConfiguredGroups : MeanExceedsBy(m[G], m[H], 0)
    /\ MeanAbove(m[G], config.thresholds.group_beneficial_min)
    /\ \A H \in ConfiguredGroups \ {G} :
          MeanExceedsBy(m[G], m[H], config.thresholds.group_margin)

\* C10: a group is flagged dominant_beneficial_group only if its mean is the
\* greatest group mean, is strictly greater than group_beneficial_min and
\* exceeds the mean of every other configured group by at least
\* group_margin; with two or more groups and group_margin > 0 the conditions
\* are also sufficient, and when all groups have the same mean none is flagged.
C10_BeneficialMargin ==
    pc = "step4" =>
        \A i \in 1..Len(allChemistry) :
            LET ch == allChemistry[i]
                m  == ch.group_means
                several == /\ Cardinality(ConfiguredGroups) >= 2
                           /\ config.thresholds.group_margin > 0
            IN  /\ ch.dominant_beneficial_group \in ConfiguredGroups \cup {null}
                /\ \A G \in ConfiguredGroups :
                      /\ ch.dominant_beneficial_group = G => BeneficialConditions(G, m)
                      /\ several /\ BeneficialConditions(G, m) =>
                             ch.dominant_beneficial_group = G
                /\ several /\ (\A G, H \in ConfiguredGroups : m[G] = m[H]) =>
                       ch.dominant_beneficial_group = null

\* three groups; the flagged group is not the first key and leads another
\* group by exactly group_margin
C10_Witness ==
    /\ pc = "step4"
    /\ Len(config.aa_groups) = 3
    /\ config.thresholds.group_margin > 0
    /\ LET ch == allChemistry[1]
           G  == ch.dominant_beneficial_group
       IN  /\ G \in ConfiguredGroups \ {config.aa_groups[1].name}
           /\ \E H \in ConfiguredGroups \ {G} :
                 /\ MeanExceedsBy(ch.group_means[G], ch.group_means[H],
                                  config.thresholds.group_margin)
                 /\ ~MeanExceedsBy(ch.group_means[G], ch.group_means[H],
                                   config.thresholds.group_margin + 1)

\* all groups have the same mean, above group_beneficial_min, and none is flagged
C10_EqualMeans ==
    /\ pc = "step4"
    /\ Len(config.aa_groups) = 3
    /\ config.thresholds.group_margin > 0
    /\ \A G, H \in ConfiguredGroups :
          allChemistry[1].group_means[G] = allChemistry[1].group_means[H]
    /\ \A G \in ConfiguredGroups :
          MeanAbove(allChemistry[1].group_means[G],
                    config.thresholds.group_beneficial_min)
    /\ allChemistry[1].dominant_beneficial_group = null

\* a < k for a mean a and a threshold k
MeanBelow(a, k) == a.n < k * a.d

\* the conditions of the claim for group G at a position with the means m
HarmfulConditions(G, m) ==
    /\ \A H \in ConfiguredGroups : MeanExceedsBy(m[H], m[G], 0)
    /\ MeanBelow(m[G], config.thresholds.group_harmful_max)
    /\ \A H \in ConfiguredGroups \ {G} :
          MeanExceedsBy(m[H], m[G], config.thresholds.group_margin)

\* C11: a group is flagged dominant_harmful_group only if its mean is the
\* least group mean, is strictly less than group_harmful_max and the mean of
\* every other configured group exceeds it by at least group_margin; with two
\* or more groups and group_margin > 0 the conditions are also sufficient.
C11_HarmfulMargin ==
    pc = "step4" =>
        \A i \in 1..Len(allChemistry) :
            LET ch == allChemistry[i]
                m  == ch.group_means
                several == /\ Cardinality(ConfiguredGroups) >= 2
                           /\ config.thresholds.group_margin > 0
            IN  /\ ch.dominant_harmful_group \in ConfiguredGroups \cup {null}
                /\ \A G \in ConfiguredGroups :
                      /\ ch.dominant_harmful_group = G => HarmfulConditions(G, m)
                      /\ several /\ HarmfulConditions(G, m) =>
                             ch.dominant_harmful_group = G

\* three groups; the flagged group is not the first key and trails another
\* group by exactly group_margin
C11_Witness ==
    /\ pc = "step4"
    /\ Len(config.aa_groups) = 3
    /\ config.thresholds.group_margin > 0
    /\ LET ch == allChemistry[1]
           G  == ch.dominant_harmful_group
       IN  /\ G \in ConfiguredGroups \ {config.aa_groups[1].name}
           /\ \E H \in ConfiguredGroups \ {G} :
                 /\ MeanExceedsBy(ch.group_means[H], ch.group_means[G],
                                  config.thresholds.group_margin)
                 /\ ~MeanExceedsBy(ch.group_means[H], ch.group_means[G],
                                   config.thresholds.group_margin + 1)

\* the aa_list indices (1-based) of the members of group g that are in aa_list
MembersPresent(g) ==
    {a \in 1..Len(config.aa_list) :
        Includes(config.aa_groups[g].members, config.aa_list[a])}

\* the sum of the matrix entries of column i in the rows S
RECURSIVE SumOfEntries(_, _)
SumOfEntries(S, i) ==
    IF S = {} THEN 0
    ELSE LET a == CHOOSE x \in S : TRUE
         IN  heatmap[a][i] + SumOfEntries(S \ {a}, i)

\* C12: group_means has one entry per configured group: the arithmetic mean
\* of the column entries of the members that are in aa_list (a member that is
\* not in aa_list is skipped, a residue of several groups counts in each), and
\* 0 for a group none of whose members is in aa_list.
C12_GroupMeans ==
    pc = "step4" =>
        \A i \in 1..Len(allChemistry) :
            /\ DOMAIN allChemistry[i].group_means = ConfiguredGroups
            /\ \A g \in 1..Len(config.aa_groups) :
                  LET present == MembersPresent(g)
                      m == allChemistry[i].group_means[config.aa_groups[g].name]
                  IN  IF present = {} THEN m = IntRat(0)
                      ELSE /\ m.d > 0
                           /\ m.n * Cardinality(present) = m.d * SumOfEntries(present, i)

\* one group has a member outside aa_list next to one inside it, one residue
\* is in two groups, one group has no member in aa_list, and the means of
\* the first two groups are not 0 and differ
C12_Witness ==
    /\ pc = "step4"
    /\ Len(config.aa_groups) = 3
    /\ \E g \in 1..3 :
          /\ MembersPresent(g) # {}
          /\ Cardinality(MembersPresent(g)) < Len(config.aa_groups[g].members)
    /\ MembersPresent(1) \cap MembersPresent(2) # {}
    /\ MembersPresent(3) = {}
    /\ allChemistry[1].group_means["negative"] = IntRat(0)
    /\ allChemistry[1].group_means["hydrophobic"].n # 0
    /\ allChemistry[1].group_means["positive"].n # 0
    /\ allChemistry[1].group_means["hydrophobic"]
          # allChemistry[1].group_means["positive"]

-----------------------------------------------------------------------------
(* analyzeChemistryGroups under thresholds that let one group pass both the
   beneficial and the harmful test: group_beneficial_min below
   group_harmful_max, one group only, or a margin that is not positive *)

InitChemAny ==
    /\ \E groups \in {gs \in GroupConfigs : Len(gs) <= 2},
          bmin \in {-1, 1}, hmax \in {-1, 1}, margin \in {-1, 0, 1} :
          config = [TestConfig(SubSeq(AAOrder, 1, NumAA)) EXCEPT
                        !.aa_groups = groups,
                        !.thresholds.group_beneficial_min = bmin,
                        !.thresholds.group_harmful_max = hmax,
                        !.thresholds.group_margin = margin]
    /\ \E col \in [1..NumAA -> (-MaxScore)..MaxScore] :
          heatmap = [a \in 1..NumAA |-> <<col[a]>>]
    /\ wtSeq = <<"A">>
    /\ allStats = <<computePositionStats(heatmap, 0, wtSeq[1], config)>>
    /\ pc = "step3"
    /\ NoClasses /\ NoChemistry /\ NoOverrides /\ NoTargets /\ NoOutput

SpecChemAny == InitChemAny /\ [][Step3]_vars

\* C13: in every analysis, for any column and configuration (a single group
\* and a margin that is not positive included), dominant_beneficial_group
\* and dominant_harmful_group are each null or the name of one configured
\* group, and they are never the same group.
C13_FlagsExclusive ==
    pc = "step4" =>
        \A i \in 1..Len(allChemistry) :
            LET ch == allChemistry[i]
            IN  /\ ch.dominant_beneficial_group \in ConfiguredGroups \cup {null}
                /\ ch.dominant_harmful_group \in ConfiguredGroups \cup {null}
                /\ ch.dominant_beneficial_group # null =>
                       ch.dominant_beneficial_group # ch.dominant_harmful_group

\* one group passes both tests (its mean is above group_beneficial_min, below
\* group_harmful_max, and no other group is a margin away) and carries one flag
C13_Witness ==
    /\ pc = "step4"
    /\ LET ch == allChemistry[1]
       IN  \E G \in ConfiguredGroups :
              /\ BeneficialConditions(G, ch.group_means)
              /\ HarmfulConditions(G, ch.group_means)
              /\ G \in {ch.dominant_beneficial_group, ch.dominant_harmful_group}
              /\ null \in {ch.dominant_beneficial_group, ch.dominant_harmful_group}

\* the same with two configured groups
C13_WitnessTwoGroups ==
    C13_Witness /\ Len(config.aa_groups) = 2

-----------------------------------------------------------------------------
(* shouldApplyChargedOverride called with any residue and any class id *)

\* wild-type residues: members of the charged groups, other residues, and the
\* undefined of a sequence that is too short
OverrideWildTypes == {"A", "K", "R", "D", "E", UndefinedStr}

\* the class ids of the test configuration, the fallback id, and an id that
\* differs from 'highly_sensitive' in case only
OverrideClassIds ==
    {TestRules[k].id : k \in 1..Len(TestRules)}
    \cup {FallbackClass.classId, "Highly_Sensitive"}

InitOverride ==
    /\ \E groups \in {gs \in GroupConfigs : Len(gs) = 3} :
          config = [TestConfig(SubSeq(AAOrder, 1, NumAA)) EXCEPT
                        !.aa_groups = groups]
    /\ \E wts \in [1..2 -> OverrideWildTypes] :
          allStats = [i \in 1..2 |->
                         [StatsWithCounts(0, 0) EXCEPT
                              !.posIndex = i - 1, !.pos1 = i, !.wtAA = wts[i]]]
    /\ \E ids \in [1..2 -> OverrideClassIds] :
          allClasses = [i \in 1..2 |-> [classId |-> ids[i], classLabel |-> ids[i]]]
    /\ heatmap = <<>>
    /\ wtSeq = <<"A", "K">>
    /\ pc = "step4"
    /\ NoChemistry /\ NoOverrides /\ NoTargets /\ NoOutput

SpecOverride == InitOverride /\ [][Step4]_vars

\* the residues config.aa_groups[name] lists
MemberSet(name) ==
    LET members == GroupMembers(config.aa_groups, name)
    IN  {members[k] : k \in 1..Len(members)}

\* C14: shouldApplyChargedOverride returns true if and only if classId is
\* 'highly_sensitive' and the wild-type residue is a member of the positive
\* or of the negative group; for any other class id it returns false
\* whatever the residue.
C14_OverrideIff ==
    pc = "step5" =>
        \A i \in 1..Len(allStats) :
            chargedOverrides[i] =
                (/\ allClasses[i].classId = "highly_sensitive"
                 /\ allStats[i].wtAA \in MemberSet("positive") \cup MemberSet("negative"))

\* one call returns true for a member of the negative group only, the other
\* returns false for the same residue under another class id
C14_Witness ==
    /\ pc = "step5"
    /\ allStats[1].wtAA = allStats[2].wtAA
    /\ allStats[1].wtAA \in MemberSet("negative") \ MemberSet("positive")
    /\ allClasses[1].classId = "highly_sensitive"
    /\ allClasses[2].classId # "highly_sensitive"
    /\ chargedOverrides = <<TRUE, FALSE>>

-----------------------------------------------------------------------------
(* interpretBFIMatrix on two-position matrices with one row per residue of a
   NumAA-residue aa_list: a position can be highly sensitive and have a
   dominant chemistry group at the same time *)

NarrativeScores == {-100, 100}

NarrativeWildTypes == {"A", "K", "D", "R"}

InitNarrative ==
    /\ config = TestConfig(SubSeq(AAOrder, 1, NumAA))
    /\ heatmap \in [1..NumAA -> [1..2 -> NarrativeScores]]
    /\ wtSeq \in [1..2 -> NarrativeWildTypes]
    /\ pc = "step1"
    /\ allStats = <<>>
    /\ NoClasses /\ NoChemistry /\ NoOverrides /\ NoTargets /\ NoOutput

SpecNarrative == InitNarrative /\ [][Next]_vars

\* part occurs in text as a run of consecutive tokens
ContainsText(text, part) ==
    \E k \in 1..(Len(text) - Len(part) + 1) :
        SubSeq(text, k, k + Len(part) - 1) = part

\* the ordinary explanation sentences of the configuration
ExplanationSentences ==
    {config.beneficial_explanations[g] : g \in DOMAIN config.beneficial_explanations}
    \cup {config.harmful_explanations[g] : g \in DOMAIN config.harmful_explanations}

\* position p of the result is highly sensitive with a charged wild type
ChargedSensitive(p) ==
    /\ p.classId = "highly_sensitive"
    /\ p.wtAA \in MemberSet("positive") \cup MemberSet("negative")

\* C15: every position of a result that is classified 'highly_sensitive' and
\* whose wild-type residue is in the positive or negative group has
\* is_conserved_charged true, and its narrative contains the
\* conserved_charged_override sentence and none of the beneficial or harmful
\* explanation sentences, whatever dominant group the chemistry analysis found.
C15_OverridePrecedence ==
    pc = "done" =>
        \A i \in 1..Len(result.positions) :
            LET p == result.positions[i]
                override == config.templates["conserved_charged_override"]
                sentences == {p.chemistry_text[k] : k \in 1..Len(p.chemistry_text)}
            IN  ChargedSensitive(p) =>
                    /\ p.is_conserved_charged = TRUE
                    /\ override \in sentences
                    /\ ContainsText(p.full_text, override)
                    /\ \A e \in ExplanationSentences :
                          /\ e \notin sentences
                          /\ ~ContainsText(p.full_text, e)

\* position 1 is overridden although the analysis found a dominant group for
\* it; position 2 is not overridden and carries an ordinary sentence
C15_Witness ==
    /\ pc = "done"
    /\ ChargedSensitive(result.positions[1])
    /\ \/ allChemistry[1].dominant_beneficial_group # null
       \/ allChemistry[1].dominant_harmful_group # null
    /\ result.positions[1].is_conserved_charged = TRUE
    /\ ~ChargedSensitive(result.positions[2])
    /\ \E e \in ExplanationSentences :
          ContainsText(result.positions[2].full_text, e)

-----------------------------------------------------------------------------
(* markExcellentTargets called on hand-built statistics, as in the tests *)

\* the number of positions of the call
TargetPositions == MaxLen + 2

\* best scores below, on and above top_opt_site_delta
TargetScores == {TestThresholds.top_opt_site_delta - 50,
                 TestThresholds.top_opt_site_delta,
                 TestThresholds.top_opt_site_delta + 50}

TargetClassIds == {"highly_designable", "moderately_designable"}

InitTargets ==
    /\ \E maxNum \in {0, 1, 2, TargetPositions + 1} :
          config = [TestConfig(SubSeq(AAOrder, 1, NumAA)) EXCEPT
                        !.thresholds.top_opt_site_max_num = maxNum]
    /\ \E scores \in [1..TargetPositions -> TargetScores] :
          allStats = [i \in 1..TargetPositions |->
                         [StatsWithCounts(2, 0) EXCEPT
                              !.posIndex = i - 1, !.pos1 = i,
                              !.best_score = Num(scores[i]),
                              !.max_score = Num(scores[i])]]
    /\ \E ids \in [1..TargetPositions -> TargetClassIds] :
          allClasses = [i \in 1..TargetPositions |->
                           [classId |-> ids[i], classLabel |-> ids[i]]]
    /\ heatmap = <<>>
    /\ wtSeq = [i \in 1..TargetPositions |-> "A"]
    /\ pc = "step5"
    /\ NoChemistry /\ NoOverrides /\ NoTargets /\ NoOutput

SpecTargets == InitTargets /\ [][Step5]_vars

\* the positions (1-based) that are highly designable with a best score of
\* at least top_opt_site_delta
TargetCandidates ==
    {i \in 1..Len(allStats) :
        /\ allClasses[i].classId = "highly_designable"
        /\ Val(allStats[i].best_score) >= config.thresholds.top_opt_site_delta}

\* C16: markExcellentTargets flags candidates only, exactly
\* min(top_opt_site_max_num, number of candidates) of them; every flagged
\* candidate has a best score >= that of every unflagged candidate, and of
\* two candidates with the same best score the one with the lower position
\* index is flagged first.
C16_TopTargets ==
    pc = "step6" =>
        LET flagged == {i \in 1..Len(allStats) : allStats[i].posIndex \in excellentTargets}
        IN  /\ excellentTargets \subseteq {allStats[i].posIndex : i \in TargetCandidates}
            /\ Cardinality(excellentTargets) =
                   Min2(config.thresholds.top_opt_site_max_num,
                        Cardinality(TargetCandidates))
            /\ \A i \in flagged, j \in TargetCandidates \ flagged :
                   \/ Val(allStats[i].best_score) > Val(allStats[j].best_score)
                   \/ /\ Val(allStats[i].best_score) = Val(allStats[j].best_score)
                      /\ i < j

\* more candidates than top_opt_site_max_num; a flagged and an unflagged
\* candidate have the same best score, a later candidate with a higher score
\* is flagged, and one highly designable position is below the threshold
C16_Witness ==
    /\ pc = "step6"
    /\ Cardinality(excellentTargets) = 2
    /\ Cardinality(TargetCandidates) > 2
    /\ \E i, j, k \in TargetCandidates :
          /\ i < j /\ j < k
          /\ Val(allStats[i].best_score) = Val(allStats[j].best_score)
          /\ Val(allStats[k].best_score) > Val(allStats[i].best_score)
          /\ excellentTargets = {allStats[i].posIndex, allStats[k].posIndex}
    /\ \E n \in 1..Len(allStats) :
          /\ allClasses[n].classId = "highly_designable"
          /\ n \notin TargetCandidates

-----------------------------------------------------------------------------
(* computeGlobalPreferences called on matrices whose rows have one or two
   entries each, under two-group configurations *)

PrefScores == {-MaxScore, 0, MaxScore}

\* a row of the matrix: one or two entries
PrefRows == [1..1 -> PrefScores] \cup [1..2 -> PrefScores]

InitPrefs ==
    /\ \E groups \in {gs \in GroupConfigs : Len(gs) = 2} :
          config = [TestConfig(SubSeq(AAOrder, 1, NumAA)) EXCEPT
                        !.aa_groups = groups,
                        !.thresholds.improve = 0,
                        !.thresholds.degrade = 0]
    /\ heatmap \in [1..NumAA -> PrefRows]
    /\ wtSeq \in {<<"A", "K">>, <<"K", "A">>}
    /\ pc = "step6"
    /\ allStats = <<>>
    /\ NoClasses /\ NoChemistry /\ NoOverrides /\ NoTargets /\ NoOutput

SpecPrefs == InitPrefs /\ [][Step6]_vars

\* the sum of the first k entries of matrix row a
RECURSIVE SumOfRow(_, _)
SumOfRow(a, k) == IF k = 0 THEN 0 ELSE heatmap[a][k] + SumOfRow(a, k - 1)

\* C17: computeGlobalPreferences returns one entry per aa_list residue, in
\* aa_list order; its mean is the arithmetic mean of the whole matrix row of
\* the residue, improve_count the number of row entries strictly greater than
\* improve and degrade_count the number strictly less than degrade; the
\* wild-type sequence has no part in these values.
C17_GlobalAAPrefs ==
    pc = "step7" =>
        /\ Len(prefs.aa_prefs) = Len(config.aa_list)
        /\ \A a \in 1..Len(config.aa_list) :
              LET pref == prefs.aa_prefs[a]
                  row  == heatmap[a]
              IN  /\ pref.aa = config.aa_list[a]
                  /\ pref.mean.d > 0
                  /\ pref.mean.n * Len(row) = pref.mean.d * SumOfRow(a, Len(row))
                  /\ pref.improve_count =
                         Len(row) - Cardinality({p \in 1..Len(row) :
                                                   row[p] <= config.thresholds.improve})
                  /\ pref.degrade_count =
                         Len(row) - Cardinality({p \in 1..Len(row) :
                                                   row[p] >= config.thresholds.degrade})

\* a row with an entry on both thresholds and one above them, a row of one
\* entry below them, a mean that is not an integer, and a wild type that is
\* not the first residue
C17_Witness ==
    /\ pc = "step7"
    /\ wtSeq[1] # config.aa_list[1]
    /\ heatmap[1] = <<0, MaxScore>>
    /\ prefs.aa_prefs[1].improve_count = 1
    /\ prefs.aa_prefs[1].degrade_count = 0
    /\ prefs.aa_prefs[1].mean.d = 2 \div Gcd(MaxScore, 2)
    /\ heatmap[2] = <<-MaxScore>>
    /\ prefs.aa_prefs[2].degrade_count = 1
    /\ prefs.aa_prefs[2].mean = IntRat(-MaxScore)

\* the product of the lengths of the first k rows of the matrix
RECURSIVE RowLengthProduct(_)
RowLengthProduct(k) == IF k = 0 THEN 1 ELSE Len(heatmap[k]) * RowLengthProduct(k - 1)

\* D times the sum of the row means of the members (of those that are in
\* aa_list), D being a multiple of every row length
RECURSIVE ScaledMeanSum(_, _)
ScaledMeanSum(members, D) ==
    IF members = <<>> THEN 0
    ELSE LET idx == IndexOf(config.aa_list, Head(members))
         IN  (IF idx >= 0
              THEN SumOfRow(idx + 1, Len(heatmap[idx + 1])) * (D \div Len(heatmap[idx + 1]))
              ELSE 0)
             + ScaledMeanSum(Tail(members), D)

\* the number of entries, and their sum, of the rows of the members in aa_list
RECURSIVE RawCount(_)
RawCount(members) ==
    IF members = <<>> THEN 0
    ELSE LET idx == IndexOf(config.aa_list, Head(members))
         IN  (IF idx >= 0 THEN Len(heatmap[idx + 1]) ELSE 0) + RawCount(Tail(members))

RECURSIVE RawSum(_)
RawSum(members) ==
    IF members = <<>> THEN 0
    ELSE LET idx == IndexOf(config.aa_list, Head(members))
         IN  (IF idx >= 0 THEN SumOfRow(idx + 1, Len(heatmap[idx + 1])) ELSE 0)
             + RawSum(Tail(members))

\* C18: computeGlobalPreferences returns one entry per configured group, in
\* key order, whose mean is the sum of the row means of the group's members
\* divided by the number of members (a mean of means), which is not in
\* general the mean over all raw values of the member rows.
C18_MeanOfMeans ==
    pc = "step7" =>
        /\ Len(prefs.group_prefs) = Len(config.aa_groups)
        /\ \A g \in 1..Len(config.aa_groups) :
              LET members == config.aa_groups[g].members
                  mean == prefs.group_prefs[g].mean
                  D == RowLengthProduct(Len(heatmap))
              IN  /\ prefs.group_prefs[g].group = config.aa_groups[g].name
                  /\ Len(members) > 0 =>
                        /\ mean.d > 0
                        /\ mean.n * Len(members) * D = mean.d * ScaledMeanSum(members, D)

\* a group whose two members are both in aa_list has rows of different
\* lengths, and its reported mean is not the mean over the raw values
C18_Witness ==
    /\ pc = "step7"
    /\ \E g \in 1..Len(config.aa_groups) :
          LET members == config.aa_groups[g].members
              mean == prefs.group_prefs[g].mean
          IN  /\ Len(members) = 2
              /\ \A m \in 1..2 : IndexOf(config.aa_list, members[m]) >= 0
              /\ RawCount(members) = 3
              /\ mean.n * RawCount(members) # mean.d * RawSum(members)

-----------------------------------------------------------------------------
(* interpretBFIMatrix under configurations whose positive group has any of
   the member lists of PositiveChoices, the list without members included *)

InitGroups ==
    /\ \E p \in PositiveChoices :
          config = [TestConfig(CallAAs) EXCEPT
                        !.aa_groups = [TestGroups EXCEPT ![2].members = p]]
    /\ \E n \in 1..MaxLen :
          /\ heatmap \in [1..Len(CallAAs) -> [1..n -> CallScores]]
          /\ wtSeq \in [1..n -> {CallAAs[a] : a \in 1..Len(CallAAs)}]
    /\ pc = "step1"
    /\ allStats = <<>>
    /\ NoClasses /\ NoChemistry /\ NoOverrides /\ NoTargets /\ NoOutput

SpecGroups == InitGroups /\ [][Next]_vars

\* the configured groups (by index) that have no members
EmptyGroups == {g \in 1..Len(config.aa_groups) : config.aa_groups[g].members = <<>>}

\* C19: for a configured group without members every group mean of a
\* returned result is 0: the per-position group_means of
\* analyzeChemistryGroups and the global group preference of
\* computeGlobalPreferences.
C19_EmptyGroupZero ==
    pc = "done" =>
        \A g \in EmptyGroups :
            /\ \A i \in 1..Len(allChemistry) :
                  allChemistry[i].group_means[config.aa_groups[g].name] = IntRat(0)
            /\ result.group_preferences[g].mean = IntRat(0)

\* the part of C19 about analyzeChemistryGroups alone
C19_PositionMeansZero ==
    pc = "done" =>
        \A g \in EmptyGroups : \A i \in 1..Len(allChemistry) :
            allChemistry[i].group_means[config.aa_groups[g].name] = IntRat(0)

\* a result for a configuration with a group without members, whose global
\* preference is NaN and is rendered as NaN in global_summary
C19_GlobalMeanNaN ==
    /\ pc = "done"
    /\ EmptyGroups # {}
    /\ \A g \in EmptyGroups :
          /\ IsNaN(result.group_preferences[g].mean)
          /\ ContainsText(result.global_summary, <<Lit("NaN")>>)

-----------------------------------------------------------------------------
(* rankMutations called on any two-column matrix *)

RankScores == {-1, 0, 1}

\* wild-type residues: two residues of aa_list and one that is not in it
RankWildTypes == {AAOrder[1], AAOrder[2], "R"}

InitRank ==
    /\ \E topK \in {0, 2, 2 * NumAA} :
          config = [TestConfig(SubSeq(AAOrder, 1, NumAA)) EXCEPT
                        !.thresholds.top_k_mutations = topK]
    /\ wtSeq \in [1..2 -> RankWildTypes]
    /\ heatmap \in [1..NumAA -> [1..2 -> RankScores]]
    /\ pc = "step7"
    /\ allStats = <<>>
    /\ NoClasses /\ NoChemistry /\ NoOverrides /\ NoTargets /\ NoOutput

SpecRank == InitRank /\ [][Step7]_vars

\* the (candidate row, position column) pairs that are not self-substitutions
NonSelfPairs ==
    {ap \in (1..Len(heatmap)) \X (1..Len(wtSeq)) :
        config.aa_list[ap[1]] # wtSeq[ap[2]]}

\* the indices of the records of a ranking that are the mutation of pair ap
RecordsOf(list, ap) ==
    {r \in 1..Len(list) :
        /\ list[r].toAA = config.aa_list[ap[1]]
        /\ list[r].position = ap[2]}

LeftOut(list) == {ap \in NonSelfPairs : RecordsOf(list, ap) = {}}

\* every record of the ranking is the mutation of one non-self pair, with the
\* matrix entry of the pair as deltaBFI, and no pair has two records
RecordsAreMutations(list) ==
    /\ \A r \in 1..Len(list) :
          \E ap \in NonSelfPairs :
              /\ r \in RecordsOf(list, ap)
              /\ list[r].deltaBFI = heatmap[ap[1]][ap[2]]
    /\ \A ap \in NonSelfPairs : Cardinality(RecordsOf(list, ap)) <= 1

-----------------------------------------------------------------------------
(* the texts of the positions of an interpretBFIMatrix result *)

\* the sentences the explanation tables give for the dominant groups the
\* analysis found at position i (1-based): beneficial first, then harmful
OrdinarySentences(i) ==
    (IF allChemistry[i].dominant_beneficial_group # null
     THEN <<config.beneficial_explanations[allChemistry[i].dominant_beneficial_group]>>
     ELSE <<>>)
    \o (IF allChemistry[i].dominant_harmful_group # null
        THEN <<config.harmful_explanations[allChemistry[i].dominant_harmful_group]>>
        ELSE <<>>)

\* C21: for every position chemistry_text holds 0 to 2 sentences, each taken
\* from the beneficial or harmful explanation tables; when no override
\* applies it is the beneficial explanation of the dominant beneficial group
\* (if any) followed by the harmful explanation of the dominant harmful
\* group (if any).
C21_ChemistryTextFromTables ==
    pc = "done" =>
        \A i \in 1..Len(result.positions) :
            LET p == result.positions[i]
            IN  /\ Len(p.chemistry_text) \in 0..2
                /\ \A k \in 1..Len(p.chemistry_text) :
                      p.chemistry_text[k] \in ExplanationSentences
                /\ ~p.is_conserved_charged => p.chemistry_text = OrdinarySentences(i)

\* what the code does keep: without override and without target flag
\* chemistry_text is exactly the ordinary sentences
C21_UnflaggedOrdinary ==
    pc = "done" =>
        \A i \in 1..Len(result.positions) :
            LET p == result.positions[i]
            IN  ~p.is_conserved_charged /\ ~p.is_excellent_target =>
                    p.chemistry_text = OrdinarySentences(i)

\* a returned position whose chemistry_text is the excellent_target sentence
\* alone, and one whose chemistry_text is the override sentence alone
C21_FlagSentenceInChemistryText ==
    /\ pc = "done"
    /\ result.positions[1].chemistry_text = <<config.templates["excellent_target"]>>
    /\ result.positions[2].chemistry_text =
           <<config.templates["conserved_charged_override"]>>

-----------------------------------------------------------------------------
(* generatePositionText called for two positions with any chemistry analysis
   and any pair of flags *)

DominantChoices == {TestGroups[g].name : g \in 1..Len(TestGroups)} \cup {null}

\* the analyses and flags of one position
TextCases ==
    [ben : DominantChoices, harm : DominantChoices,
     override : BOOLEAN, target : BOOLEAN]

InitText ==
    /\ config = TestConfig(SubSeq(AAOrder, 1, NumAA))
    /\ \E cases \in [1..2 -> TextCases] :
          /\ allChemistry =
                 [i \in 1..2 |->
                     [group_means |->
                          [g \in DominantChoices \ {null} |-> IntRat(0)],
                      dominant_beneficial_group |-> cases[i].ben,
                      dominant_harmful_group |-> cases[i].harm]]
          /\ chargedOverrides = [i \in 1..2 |-> cases[i].override]
          /\ excellentTargets = {i - 1 : i \in {k \in 1..2 : cases[k].target}}
    /\ allStats = [i \in 1..2 |->
                      [StatsWithCounts(1, 1) EXCEPT !.posIndex = i - 1, !.pos1 = i]]
    /\ allClasses = [i \in 1..2 |-> FallbackClass]
    /\ heatmap = <<>>
    /\ wtSeq = <<"A", "A">>
    /\ pc = "step8"
    /\ NoOutput

SpecText == InitText /\ [][Step8]_vars

\* the segments in order, each after the first preceded by one space
RECURSIVE SpaceSeparated(_)
SpaceSeparated(segments) ==
    IF segments = <<>> THEN <<>>
    ELSE IF Len(segments) = 1 THEN segments[1]
    ELSE segments[1] \o <<Lit(" ")>> \o SpaceSeparated(Tail(segments))

\* C22: full_text is the header, the basic-stats sentence and the sentences
\* of chemistry_text in order, joined by exactly one space, no segment being
\* empty; the excellent_target sentence is the last sentence if and only if
\* the position was selected by markExcellentTargets, which
\* is_excellent_target reports.
C22_FullText ==
    pc = "summary" =>
        \A i \in 1..Len(positions) :
            LET p == positions[i]
                segments == <<p.header, p.basic_stats>> \o p.chemistry_text
                n == Len(p.chemistry_text)
                flagLast == n > 0 /\ p.chemistry_text[n] = config.templates["excellent_target"]
            IN  /\ p.full_text = SpaceSeparated(segments)
                /\ \A k \in 1..Len(segments) : segments[k] \notin {<<>>, UndefinedText}
                /\ p.is_excellent_target = (p.posIndex \in excellentTargets)
                /\ flagLast = p.is_excellent_target

\* position 1 carries a beneficial, a harmful and the flag sentence, position
\* 2 the override sentence alone
C22_Witness ==
    /\ pc = "summary"
    /\ Len(positions[1].chemistry_text) = 3
    /\ positions[1].is_excellent_target
    /\ positions[1].chemistry_text[3] = config.templates["excellent_target"]
    /\ positions[2].chemistry_text = <<config.templates["conserved_charged_override"]>>
    /\ ~positions[2].is_excellent_target

-----------------------------------------------------------------------------
(* the global summary of an interpretBFIMatrix result *)

\* the 1-based positions of the result whose class id is in ids
PositionsOfClass(ids) ==
    {result.positions[i].pos1 : i \in {k \in 1..Len(result.positions) :
                                          result.positions[k].classId \in ids}}

\* the members of S from k upwards, in ascending order, separated by ', '
RECURSIVE RenderFrom(_, _)
RenderFrom(S, k) ==
    IF \A x \in S : x < k THEN ""
    ELSE IF k \notin S THEN RenderFrom(S, k + 1)
    ELSE ToString(k) \o (IF \E x \in S : x > k THEN ", " ELSE "")
         \o RenderFrom(S, k + 1)

\* a position list as the summary shows it
Rendered(S) == IF S = {} THEN "None" ELSE RenderFrom(S, 1)

\* the first four segments of the summary under the test templates
SummaryHead ==
    <<Lit("Global Analysis:"), Lit(" "),
      Lit("Conserved core: "), Lit(Rendered(PositionsOfClass({"highly_sensitive"}))),
      Lit("."), Lit(" "),
      Lit("Sensitive: "),
      Lit(Rendered(PositionsOfClass({"highly_sensitive", "moderately_sensitive"}))),
      Lit("."), Lit(" "),
      Lit("Designable: "),
      Lit(Rendered(PositionsOfClass({"highly_designable", "moderately_designable"}))),
      Lit("."), Lit(" ")>>

\* C23: global_summary is the header, the conserved-positions sentence, the
\* sensitive-positions sentence, the designable-positions sentence and the
\* group-preference sentence, joined by single spaces; a position list is
\* rendered as its 1-based positions separated by ', ' and an empty list as
\* 'None', never as the empty string.
C23_GlobalSummary ==
    pc = "done" =>
        LET text == result.global_summary
            n    == Len(SummaryHead)
        IN  /\ Len(text) = n + 7
            /\ SubSeq(text, 1, n) = SummaryHead
            /\ text[n + 1] = Lit("Group preferences - Hydrophobic: ")
            /\ text[n + 2] = Lit(RatToFixed2(result.group_preferences[1].mean))
            /\ text[n + 3] = Lit(", Positive: ")
            /\ text[n + 5] = Lit(", Negative: ")
            /\ text[n + 7] = Lit(".")
            /\ \A k \in 1..Len(text) : text[k] # Lit("")

\* a summary with a list of two positions and an empty list
C23_Witness ==
    /\ pc = "done"
    /\ ContainsText(result.global_summary, <<Lit("Sensitive: "), Lit("1, 2"), Lit(".")>>)
    /\ ContainsText(result.global_summary, <<Lit("Designable: "), Lit("None"), Lit(".")>>)
    /\ ContainsText(result.global_summary, <<Lit("Conserved core: "), Lit("2"), Lit(".")>>)

-----------------------------------------------------------------------------
(* the conflict rule of analyzeChemistryGroups *)

\* some group passes the beneficial and the harmful test at position i; all
\* group means are then equal and the first configured group is the one
\* both searches find
BothTestsPass(i) ==
    \E G \in ConfiguredGroups :
        /\ BeneficialConditions(G, allChemistry[i].group_means)
        /\ HarmfulConditions(G, allChemistry[i].group_means)

\* C24: when the same group would be flagged both beneficial and harmful,
\* exactly one of the two flags survives and the other is null. (The flag
\* with the larger absolute mean is to be kept; both flags carry the mean of
\* the same group, so neither is larger.)
C24_ConflictKeepsOne ==
    pc = "step4" =>
        \A i \in 1..Len(allChemistry) :
            BothTestsPass(i) =>
                LET ch == allChemistry[i]
                    G  == config.aa_groups[1].name
                IN  {ch.dominant_beneficial_group, ch.dominant_harmful_group} = {G, null}

\* a conflict on a group with a positive mean: the harmful flag is the one
\* that survives
C24_Witness ==
    /\ pc = "step4"
    /\ BothTestsPass(1)
    /\ MeanAbove(allChemistry[1].group_means[config.aa_groups[1].name], 0)
    /\ allChemistry[1].dominant_harmful_group = config.aa_groups[1].name
    /\ allChemistry[1].dominant_beneficial_group = null

-----------------------------------------------------------------------------
(* the order of equal deltas in the rankings of rankMutations *)

\* the place of the mutation (candidate row a, position p) in the
\* enumeration: rows ascending, positions ascending within a row
EnumPlace(a, p) == (a - 1) * Len(wtSeq) + p

\* the place of a record of a ranking
RecordPlace(rec) == EnumPlace(IndexOf(config.aa_list, rec.toAA) + 1, rec.position)

\* C25: among mutations with equal delta both topBeneficial and topHarmful
\* keep the order of enumeration (candidate row ascending, then position
\* ascending), and of several mutations with the delta at the top-K cut the
\* ones enumerated first are the ones listed.
C25_StableTies ==
    pc = "step8" =>
        \A list \in {ranked.topBeneficial, ranked.topHarmful} :
            /\ \A r, q \in 1..Len(list) :
                  r < q /\ list[r].deltaBFI = list[q].deltaBFI =>
                      RecordPlace(list[r]) < RecordPlace(list[q])
            /\ \A ap \in LeftOut(list) : \A r \in 1..Len(list) :
                  heatmap[ap[1]][ap[2]] = list[r].deltaBFI =>
                      RecordPlace(list[r]) < EnumPlace(ap[1], ap[2])

\* every entry of the matrix is the same, no mutation is a self-substitution,
\* and K cuts the list: both rankings hold the first two entries of row 1
C25_Witness ==
    /\ pc = "step8"
    /\ \A a \in 1..Len(heatmap) : \A p \in 1..2 : heatmap[a][p] = heatmap[1][1]
    /\ Cardinality(NonSelfPairs) = 2 * Len(heatmap)
    /\ config.thresholds.top_k_mutations = 2
    /\ \A list \in {ranked.topBeneficial, ranked.topHarmful} :
          /\ Len(list) = 2
          /\ list[1].toAA = config.aa_list[1] /\ list[1].position = 1
          /\ list[2].toAA = config.aa_list[1] /\ list[2].position = 2

-----------------------------------------------------------------------------
(* the positions of an interpretBFIMatrix result *)

\* the greatest and the least entry of matrix column i
ColumnMax(i) == CHOOSE v \in {heatmap[a][i] : a \in 1..Len(heatmap)} :
                    \A a \in 1..Len(heatmap) : heatmap[a][i] <= v

ColumnMin(i) == CHOOSE v \in {heatmap[a][i] : a \in 1..Len(heatmap)} :
                    \A a \in 1..Len(heatmap) : heatmap[a][i] >= v

\* C26: for a wild-type sequence of length L the result has exactly L
\* positions and total_positions = L; the i-th entry (from 0) has posIndex =
\* i, pos1 = i + 1, wtAA = the i-th character of the sequence, and the
\* statistics of matrix column i.
C26_PositionOrder ==
    pc = "done" =>
        /\ Len(result.positions) = Len(wtSeq)
        /\ result.total_positions = Len(wtSeq)
        /\ \A i \in 1..Len(wtSeq) :
              LET p  == result.positions[i]
                  th == config.thresholds
                  column == ColumnEntries(i)
              IN  /\ p.posIndex = i - 1
                  /\ p.pos1 = i
                  /\ p.wtAA = wtSeq[i]
                  /\ p.num_improve = CountWhere(column, {v \in CallScores : v > th.improve})
                  /\ p.num_degrade = CountWhere(column, {v \in CallScores : v < th.degrade})
                  /\ p.num_neutral =
                         CountWhere(column, {v \in CallScores : Abs(v) < th.neutral_abs})
                  /\ p.best_score = Num(ColumnMax(i))
                  /\ p.worst_score = Num(ColumnMin(i))
                  /\ heatmap[IndexOf(config.aa_list, p.best_AA) + 1][i] = ColumnMax(i)
                  /\ heatmap[IndexOf(config.aa_list, p.worst_AA) + 1][i] = ColumnMin(i)

\* two positions with different wild types whose columns have different
\* counts and different best residues
C26_Witness ==
    /\ pc = "done"
    /\ Len(wtSeq) = 2
    /\ wtSeq[1] # wtSeq[2]
    /\ result.positions[1].num_improve > result.positions[2].num_improve
    /\ result.positions[1].num_degrade < result.positions[2].num_degrade
    /\ result.positions[1].best_AA # result.positions[2].best_AA
    /\ result.positions[1].best_score # result.positions[2].best_score

-----------------------------------------------------------------------------
(* computePositionStats under thresholds that are, or are not, in the order
   degrade < -neutral_abs < neutral_abs < improve, on columns with entries
   beyond every threshold *)

SaneScores == (-(MaxScore + 1))..(MaxScore + 1)

InitSane ==
    /\ \E improve \in {1, MaxScore}, degrade \in {-1, -MaxScore},
          neutral_abs \in {1, MaxScore + 1} :
          config = [TestConfig(SubSeq(AAOrder, 1, NumAA)) EXCEPT
                        !.thresholds.improve = improve,
                        !.thresholds.degrade = degrade,
                        !.thresholds.neutral_abs = neutral_abs]
    /\ \E col \in [1..NumAA -> SaneScores] :
          heatmap = [a \in 1..NumAA |-> <<col[a]>>]
    /\ wtSeq = <<"A">>
    /\ pc = "step1"
    /\ allStats = <<>>
    /\ NoClasses /\ NoChemistry /\ NoOverrides /\ NoTargets /\ NoOutput

SpecSane == InitSane /\ [][Step1]_vars

\* degrade < -neutral_abs < neutral_abs < improve
SaneThresholds ==
    /\ config.thresholds.degrade < -config.thresholds.neutral_abs
    /\ -config.thresholds.neutral_abs < config.thresholds.neutral_abs
    /\ config.thresholds.neutral_abs < config.thresholds.improve

\* the rows whose entry at position i is above improve, below degrade, or
\* within neutral_abs of 0
CountedRows(i) ==
    {a \in 1..Len(heatmap) :
        \/ heatmap[a][i] > config.thresholds.improve
        \/ heatmap[a][i] < config.thresholds.degrade
        \/ Abs(heatmap[a][i]) < config.thresholds.neutral_abs}

\* C27: under thresholds with degrade < -neutral_abs < neutral_abs < improve
\* no column entry is counted by more than one of num_improve, num_degrade
\* and num_neutral: the three counts add up to the number of entries that
\* are counted at all, which is at most the number of matrix rows.
C27_CountsDisjoint ==
    pc = "step2" /\ SaneThresholds =>
        \A i \in 1..Len(allStats) :
            LET st == allStats[i]
            IN  /\ st.num_improve + st.num_degrade + st.num_neutral
                       = Cardinality(CountedRows(i))
                /\ st.num_improve + st.num_degrade + st.num_neutral <= Len(heatmap)

\* sane thresholds and a column with an improving, a degrading and a
\* neutral entry
C27_Witness ==
    /\ pc = "step2"
    /\ SaneThresholds
    /\ allStats[1].num_improve = 1
    /\ allStats[1].num_degrade = 1
    /\ allStats[1].num_neutral = 1

\* thresholds out of that order (neutral_abs above improve) under which an
\* entry is counted twice and the counts add up to more than the rows
C27_OverlapWhenNotSane ==
    /\ pc = "step2"
    /\ ~SaneThresholds
    /\ allStats[1].num_improve + allStats[1].num_degrade + allStats[1].num_neutral
           > Len(heatmap)

-----------------------------------------------------------------------------
(* the position lists of an interpretBFIMatrix result *)

\* the elements of a list
Elements(list) == {list[k] : k \in 1..Len(list)}

\* strictly ascending 1-based positions within 1..L
AscendingPositions(list) ==
    /\ \A k \in 1..Len(list) : list[k] \in 1..Len(wtSeq)
    /\ \A k \in 1..(Len(list) - 1) : list[k] < list[k + 1]

NamedTiers == {"highly_sensitive", "moderately_sensitive",
               "highly_designable", "moderately_designable"}

\* C28: in every result conserved_positions is a subset of
\* sensitive_positions, sensitive_positions and designable_positions are
\* disjoint, excellent_target_positions is a subset of designable_positions
\* with at most top_opt_site_max_num elements, each list is strictly
\* ascending within 1..L, structurally_conserved_count is the length of
\* conserved_positions, and a position whose class id is none of the four
\* named tiers is in none of the lists.
C28_ListsConsistent ==
    pc = "done" =>
        LET conserved  == result.conserved_positions
            sensitive  == result.sensitive_positions
            designable == result.designable_positions
            excellent  == result.excellent_target_positions
        IN  /\ Elements(conserved) \subseteq Elements(sensitive)
            /\ Elements(sensitive) \cap Elements(designable) = {}
            /\ Elements(excellent) \subseteq Elements(designable)
            /\ Len(excellent) <= config.thresholds.top_opt_site_max_num
            /\ \A list \in {conserved, sensitive, designable, excellent} :
                   AscendingPositions(list)
            /\ result.structurally_conserved_count = Len(conserved)
            /\ \A i \in 1..Len(result.positions) :
                   result.positions[i].classId \notin NamedTiers =>
                       result.positions[i].pos1 \notin
                           Elements(conserved) \cup Elements(sensitive)
                           \cup Elements(designable) \cup Elements(excellent)

\* one position is conserved and the other is a designable position that is
\* an excellent target
C28_Witness ==
    /\ pc = "done"
    /\ Len(result.conserved_positions) = 1
    /\ result.sensitive_positions = result.conserved_positions
    /\ Len(result.designable_positions) = 1
    /\ result.excellent_target_positions = result.designable_positions

\* two highly designable positions of which top_opt_site_max_num = 1 is
\* flagged, and a result with a position of the fallback class
C28_WitnessCut ==
    /\ pc = "done"
    /\ result.designable_positions = <<1, 2>>
    /\ Len(result.excellent_target_positions) = 1

C28_WitnessNeutral ==
    /\ pc = "done"
    /\ Len(result.positions) = 2
    /\ result.positions[1].classId = "neutral"
    /\ result.sensitive_positions = <<2>>

-----------------------------------------------------------------------------
(* the two flags of a position *)

\* C29: no position of a result has both is_conserved_charged and
\* is_excellent_target: is_conserved_charged implies class id
\* 'highly_sensitive', is_excellent_target implies class id
\* 'highly_designable' with best_score >= top_opt_site_delta, and no
\* narrative contains both the override and the excellent-target sentence.
C29_FlagsExclusive ==
    pc = "done" =>
        \A i \in 1..Len(result.positions) :
            LET p == result.positions[i]
            IN  /\ ~(p.is_conserved_charged /\ p.is_excellent_target)
                /\ p.is_conserved_charged => p.classId = "highly_sensitive"
                /\ p.is_excellent_target =>
                       /\ p.classId = "highly_designable"
                       /\ Val(p.best_score) >= config.thresholds.top_opt_site_delta
                /\ ~(/\ ContainsText(p.full_text,
                                      config.templates["conserved_charged_override"])
                     /\ ContainsText(p.full_text, config.templates["excellent_target"]))

\* an overridden position whose best score reaches top_opt_site_delta and is
\* not flagged, next to a flagged position
C29_Witness ==
    /\ pc = "done"
    /\ result.positions[1].is_conserved_charged
    /\ Val(result.positions[1].best_score) >= config.thresholds.top_opt_site_delta
    /\ ~result.positions[1].is_excellent_target
    /\ result.positions[2].is_excellent_target
    /\ ~result.positions[2].is_conserved_charged

-----------------------------------------------------------------------------
(* the two group aggregations on a matrix with one column *)

\* the groups (by index) all of whose members, at least one, are in aa_list
FullyListedGroups ==
    {g \in 1..Len(config.aa_groups) :
        /\ config.aa_groups[g].members # <<>>
        /\ \A m \in 1..Len(config.aa_groups[g].members) :
              Includes(config.aa_list, config.aa_groups[g].members[m])}

\* C30: on a matrix with exactly one column, for every configuration (groups
\* with members absent from aa_list, groups without members and residues in
\* several groups included), the global mean of computeGlobalPreferences for
\* each group equals the group_means entry of analyzeChemistryGroups for
\* that column.
C30_AggregationsAgree ==
    pc = "done" /\ Len(wtSeq) = 1 =>
        \A g \in 1..Len(config.aa_groups) :
            result.group_preferences[g].mean
                = allChemistry[1].group_means[config.aa_groups[g].name]

\* what the code does keep: the two agree on the groups all of whose
\* members are in aa_list
C30_AgreeWhenAllListed ==
    pc = "done" /\ Len(wtSeq) = 1 =>
        \A g \in FullyListedGroups :
            result.group_preferences[g].mean
                = allChemistry[1].group_means[config.aa_groups[g].name]

\* a one-column result in which a group with one member outside aa_list has
\* a global mean of half its per-position mean
C30_AbsentMemberHalves ==
    /\ pc = "done"
    /\ Len(wtSeq) = 1
    /\ config.aa_groups[2].members = <<"K", "R">>
    /\ allChemistry[1].group_means["positive"] = IntRat(100)
    /\ result.group_preferences[2].mean = IntRat(50)

-----------------------------------------------------------------------------
(* interpretBFIMatrix called with a matrix whose size disagrees with the *)
(* sequence or with aa_list                                              *)

MismatchScores == {-100, 100}

\* the matrix has another number of rows than aa_list has residues, or a row
\* whose length is not the length of the wild-type sequence
SizeMismatch ==
    \/ Len(heatmap) # Len(config.aa_list)
    \/ \E a \in 1..Len(heatmap) : Len(heatmap[a]) # Len(wtSeq)

\* a row one entry too short, of the right length or one entry too long
MismatchRows(n) == UNION {[1..c -> MismatchScores] : c \in (n - 1)..(n + 1)}

\* one row too few or too many, or rows too short or too long
InitMismatch ==
    /\ config = TestConfig(CallAAs)
    /\ \E n \in 1..MaxLen :
          /\ wtSeq \in [1..n -> {CallAAs[a] : a \in 1..Len(CallAAs)}]
          /\ \E rows \in (Len(CallAAs) - 1)..(Len(CallAAs) + 1) :
                heatmap \in [1..rows -> MismatchRows(n)]
    /\ SizeMismatch
    /\ pc = "step1"
    /\ allStats = <<>>
    /\ NoClasses /\ NoChemistry /\ NoOverrides /\ NoTargets /\ NoOutput

SpecMismatch == InitMismatch /\ [][Next]_vars

\* C1: when the matrix, the wild-type sequence and aa_list disagree in size,
\* interpretBFIMatrix fails with an error before anything is computed and
\* never returns a result built from truncated or padded data: no call on
\* mismatched sizes ends with a result.
C1_MismatchNeverReturns ==
    pc = "done" => ~SizeMismatch

-----------------------------------------------------------------------------
(* interpretBFIMatrix called with a configuration that lacks an entry or *)
(* whose template names a variable the engine does not supply            *)

Without(obj, key) == [k \in DOMAIN obj \ {key} |-> obj[k]]

\* the configurations with one explanation, one template or one charged
\* group removed
ConfigsWithMissingKey ==
    {[TestConfig(CallAAs) EXCEPT !.beneficial_explanations = Without(@, g)] :
        g \in DOMAIN TestBeneficial}
    \cup {[TestConfig(CallAAs) EXCEPT !.harmful_explanations = Without(@, g)] :
            g \in DOMAIN TestHarmful}
    \cup {[TestConfig(CallAAs) EXCEPT !.templates = Without(@, t)] :
            t \in TemplateNames}
    \cup {[TestConfig(CallAAs) EXCEPT
              !.aa_groups = FilterSeq(@, {gr \in {TestGroups[i] : i \in 1..Len(TestGroups)} :
                                             gr.name # g})] :
            g \in {"positive", "negative"}}

\* the header names {{position}} for {{pos1}}; the group sentence names the
\* mean of a group that is not configured
ConfigsWithUnsuppliedVariable ==
    {[TestConfig(CallAAs) EXCEPT
         !.templates["position_header"] =
             <<Lit("Position "), Ph("position"), Lit(" ("), Ph("wt"), Lit("): "),
               Ph("class_label"), Lit(".")>>],
     [TestConfig(CallAAs) EXCEPT
         !.templates["global_group_preferences"] =
             @ \o <<Lit(" Aromatic: "), Ph("aromatic_mean"), Lit(".")>>]}

InitConfig ==
    /\ config \in ConfigsWithMissingKey \cup ConfigsWithUnsuppliedVariable
    /\ \E n \in 1..MaxLen :
          /\ wtSeq \in [1..n -> {CallAAs[a] : a \in 1..Len(CallAAs)}]
          /\ heatmap \in [1..Len(CallAAs) -> [1..n -> CallScores]]
    /\ pc = "step1"
    /\ allStats = <<>>
    /\ NoClasses /\ NoChemistry /\ NoOverrides /\ NoTargets /\ NoOutput

SpecConfig == InitConfig /\ [][Next]_vars

\* a key the engine has read in this call is absent from the configuration
MissingKeyReferenced ==
    \/ \E t \in {"position_header", "position_basic_stats"} :
          Len(allStats) > 0 /\ t \notin DOMAIN config.templates
    \/ \E t \in {"global_summary_header", "global_structural_core", "global_sensitive",
                 "global_designable", "global_group_preferences"} :
          t \notin DOMAIN config.templates
    \/ \E i \in 1..Len(allClasses) :
          /\ allClasses[i].classId = "highly_sensitive"
          /\ ~HasGroup(config.aa_groups, "positive")
    \/ \E i \in 1..Len(allClasses) :
          /\ allClasses[i].classId = "highly_sensitive"
          /\ HasGroup(config.aa_groups, "positive")
          /\ ~Includes(GroupMembers(config.aa_groups, "positive"), allStats[i].wtAA)
          /\ ~HasGroup(config.aa_groups, "negative")
    \/ \E i \in 1..Len(chargedOverrides) :
          \/ /\ chargedOverrides[i]
             /\ "conserved_charged_override" \notin DOMAIN config.templates
          \/ /\ ~chargedOverrides[i]
             /\ allChemistry[i].dominant_beneficial_group # null
             /\ allChemistry[i].dominant_beneficial_group
                    \notin DOMAIN config.beneficial_explanations
          \/ /\ ~chargedOverrides[i]
             /\ allChemistry[i].dominant_harmful_group # null
             /\ allChemistry[i].dominant_harmful_group
                    \notin DOMAIN config.harmful_explanations
          \/ /\ (i - 1) \in excellentTargets
             /\ "excellent_target" \notin DOMAIN config.templates

\* C2: when a key the engine references is absent from the configuration,
\* interpretBFIMatrix fails with an explicit missing-configuration-key error
\* and never returns a result in which a default or empty text stands for the
\* missing entry: no call that referenced an absent key ends with a result.
C2_MissingKeyNeverReturns ==
    pc = "done" => ~MissingKeyReferenced

\* the text holds a {{name}} placeholder
HasPlaceholder(text) == \E t \in 1..Len(text) : text[t][1] = "ph"

\* C3: template filling never silently emits an unresolved placeholder: no
\* header, basic_stats, full_text or global_summary of a returned result
\* contains a {{...}} placeholder.
C3_NoPlaceholderInResult ==
    pc = "done" =>
        /\ \A i \in 1..Len(result.positions) :
              /\ ~HasPlaceholder(result.positions[i].header)
              /\ ~HasPlaceholder(result.positions[i].basic_stats)
              /\ ~HasPlaceholder(result.positions[i].full_text)
        /\ ~HasPlaceholder(result.global_summary)

=============================================================================
